---- MODULE Spec2Model ----
(***************************************************************************)
(* Presence / engagement core of the reception agent.                      *)
(*                                                                         *)
(* PresenceStateMachine (app/vision/presence/PresenceStateMachine.ts)      *)
(* turns the per-frame count of stable face tracks into the debounced      *)
(* events enter, exit, greet and greet-suppressed.  One instance is        *)
(* modelled: its PresenceState, its settings, and the calls update() and   *)
(* reset().  Observer variables record what the last call was given and    *)
(* what it returned, so that the properties can speak about one call and   *)
(* about the events of a visit.                                            *)
(***************************************************************************)
EXTENDS Integers, Sequences, FiniteSets

(***************************************************************************)
(* Bounds of the model.  Times are multiples of TickMs.                    *)
(***************************************************************************)
TickMs == 10
MaxTick == 2
MaxDwellTicks == 2
MaxCooldownTicks == 2
MaxStableCount == 1
MaxCalls == 6
MaxCost == 2
MaxDetections == 2
MaxFrames == 4
HoldFrames == 10
MaxPageFrames == 5

Timestamps == {k * TickMs : k \in 0..MaxTick}
DwellValues == {k * TickMs : k \in 0..MaxDwellTicks}
CooldownValues == {k * TickMs : k \in 0..MaxCooldownTicks}
StableCounts == (-1)..MaxStableCount

VARIABLES
    state,                \* this.state : PresenceState
    settings,             \* this.settings : PresenceStateMachineSettings
    events,               \* the PresenceEvent[] returned by the last update
    params,               \* the params of the last update
    prev,                 \* this.state before the last call
    op,                   \* the last call: "new", "update" or "reset"
    callCount,            \* updates since construction / reset
    monotonic,            \* timestamps since construction / reset never decreased
    onesAtTicks,          \* i-th update had stableCount 1 at (i-1)*TickMs
    shape,                \* sign pattern of the stableCounts so far
    firstEvents,          \* events returned by the first update
    enterCount,           \* enter events since construction / reset
    exitCount,            \* exit events since construction / reset
    greetLog,             \* timestamps of the greet events, in order
    greetsThisVisit,      \* greet events since the last enter
    suppressedThisVisit,  \* greet-suppressed events since the last enter
    followUpVisit         \* "armed": a greeted visit has ended;
                          \* "active": the next visit began within the cooldown

presenceVars == <<state, settings, events, params, prev, op, callCount, monotonic,
                  onesAtTicks, shape, firstEvents, enterCount, exitCount, greetLog,
                  greetsThisVisit, suppressedThisVisit, followUpVisit>>

VARIABLES
    givenMatrix,           \* the argument of solveHungarianAssignment
    solved                \* what the call threw or returned

solverVars == <<givenMatrix, solved>>

VARIABLES
    tracks,               \* this.tracks : FaceTrack[]
    nextTrackId,          \* this.nextTrackId
    trackSettings,        \* this.settings : FaceTrackSettings
    givenDetections,      \* params.detections of the last update
    trackResult,          \* what the last update threw or returned
    trackPrev,            \* this.tracks before the last call
    trackOp,              \* the last call: "new", "update" or "reset"
    frame,                \* updates since construction / reset
    issuedIds,            \* the created trackIds since construction / reset, in order
    trackLog,             \* per live trackId: the frame that created it and
                          \* the last frame that missed it (0: none)
    fresh,                \* trackIds matched or created by the last update
    prevFresh             \* trackIds matched or created by the update before it

trackVars == <<tracks, nextTrackId, trackSettings, givenDetections, trackResult, trackPrev,
               trackOp, frame, issuedIds, trackLog, fresh, prevFresh>>

(***************************************************************************)
(* What each instance was fed since it was constructed or last reset, and  *)
(* whether a reset came before.                                            *)
(***************************************************************************)
VARIABLES
    trackReplay, presenceReplay

replayVars == <<trackReplay, presenceReplay>>

(***************************************************************************)
(* filterDetectionsForPresence: the settings and detections it is called   *)
(* with and what it returns.                                               *)
(***************************************************************************)
VARIABLES
    minConfidence, filterSettings, candidates, filtered

filterVars == <<minConfidence, filterSettings, candidates, filtered>>

(***************************************************************************)
(* The page (app/page.tsx): isAssistantStreamingRef.current, the           *)
(* eventTextTemplate of the presence settings, and what the latest         *)
(* detection interval callback passed to sendMessage.  Observers:          *)
(* streamingSeen is the value of the ref the latest callback read,         *)
(* sentThisVisit counts the messages sent since the latest enter and       *)
(* droppedThisVisit tells whether a greet of this visit was emitted while  *)
(* the assistant was streaming.                                            *)
(***************************************************************************)
VARIABLES
    isAssistantStreaming, eventTextTemplate, sentMessages,
    streamingSeen, sentThisVisit, droppedThisVisit

pageVars ==
    <<isAssistantStreaming, eventTextTemplate, sentMessages,
      streamingSeen, sentThisVisit, droppedThisVisit>>

vars == <<presenceVars, solverVars, trackVars, replayVars, filterVars, pageVars>>

(***************************************************************************)
(* null of `number | null`; timestamps are never negative in the model.    *)
(***************************************************************************)
Null == -1

INITIAL_STATE ==
    [state |-> "noPresence",
     visitStartedAtMs |-> Null,
     hasGreetedThisVisit |-> FALSE,
     hasEmittedCooldownSuppressionThisVisit |-> FALSE,
     lastGreetedAtMs |-> Null]

Max(a, b) == IF a >= b THEN a ELSE b

EnterEvent(detectedAtMs, stableCount) ==
    [type |-> "enter", detectedAtMs |-> detectedAtMs, stableCount |-> stableCount]

ExitEvent(detectedAtMs) ==
    [type |-> "exit", detectedAtMs |-> detectedAtMs, stableCount |-> 0]

GreetEvent(detectedAtMs, stableCount, visitDurationMs) ==
    [type |-> "greet", detectedAtMs |-> detectedAtMs, stableCount |-> stableCount,
     visitDurationMs |-> visitDurationMs]

GreetSuppressedEvent(detectedAtMs, stableCount, visitDurationMs) ==
    [type |-> "greet-suppressed", detectedAtMs |-> detectedAtMs,
     stableCount |-> stableCount, suppressionReason |-> "cooldown",
     visitDurationMs |-> visitDurationMs]

Result(st, evs) == [state |-> st, events |-> evs]

VisitDurationMs(st, detectedAtMs) ==
    LET visitStartedAtMs == IF st.visitStartedAtMs = Null THEN detectedAtMs
                            ELSE st.visitStartedAtMs
    IN  Max(0, detectedAtMs - visitStartedAtMs)

AlreadyGreeted_Never(st) == FALSE

AlreadyGreeted(st) == st.hasGreetedThisVisit

IsDwellReached_Swapped(visitDurationMs, cfg) ==
    visitDurationMs <= cfg.dwellMsToGreet

IsDwellReached(visitDurationMs, cfg) ==
    visitDurationMs >= cfg.dwellMsToGreet

IsInCooldown_Reversed(st, cfg, detectedAtMs) ==
    IF st.lastGreetedAtMs = Null THEN FALSE
    ELSE detectedAtMs - st.lastGreetedAtMs > cfg.greetCooldownMs

(***************************************************************************)
(* lastGreetedAtMs ?? -Infinity: never in cooldown before the first greet. *)
(***************************************************************************)
IsInCooldown(st, cfg, detectedAtMs) ==
    IF st.lastGreetedAtMs = Null THEN FALSE
    ELSE detectedAtMs - st.lastGreetedAtMs < cfg.greetCooldownMs

SuppressBranch_NoFlag(st, stableCount, detectedAtMs, visitDurationMs) ==
    Result(st, <<GreetSuppressedEvent(detectedAtMs, stableCount, visitDurationMs)>>)

(***************************************************************************)
(* update, in cooldown: greet-suppressed, guarded by the per-visit flag.   *)
(***************************************************************************)
SuppressBranch(st, stableCount, detectedAtMs, visitDurationMs) ==
    IF ~st.hasEmittedCooldownSuppressionThisVisit
    THEN Result([st EXCEPT !.hasEmittedCooldownSuppressionThisVisit = TRUE],
                <<GreetSuppressedEvent(detectedAtMs, stableCount, visitDurationMs)>>)
    ELSE Result(st, <<>>)

GreetBranch_NoStamp(st, stableCount, detectedAtMs, visitDurationMs) ==
    Result([st EXCEPT !.hasGreetedThisVisit = TRUE],
           <<GreetEvent(detectedAtMs, stableCount, visitDurationMs)>>)

GreetBranch_NoFlag(st, stableCount, detectedAtMs, visitDurationMs) ==
    Result([st EXCEPT !.lastGreetedAtMs = detectedAtMs],
           <<GreetEvent(detectedAtMs, stableCount, visitDurationMs)>>)

(***************************************************************************)
(* update, dwell reached and not in cooldown: greet.                       *)
(***************************************************************************)
GreetBranch(st, stableCount, detectedAtMs, visitDurationMs) ==
    Result([st EXCEPT !.hasGreetedThisVisit = TRUE,
                      !.lastGreetedAtMs = detectedAtMs],
           <<GreetEvent(detectedAtMs, stableCount, visitDurationMs)>>)

NoStableBranch_KeepsVisit(st, detectedAtMs) ==
    Result([st EXCEPT !.state = "noPresence"],
           IF st.state = "present" THEN <<ExitEvent(detectedAtMs)>> ELSE <<>>)

NoStableBranch_FullReset(st, detectedAtMs) ==
    Result(INITIAL_STATE,
           IF st.state = "present" THEN <<ExitEvent(detectedAtMs)>> ELSE <<>>)

NoStableBranch_AlwaysExit(st, detectedAtMs) ==
    Result([st EXCEPT !.state = "noPresence",
                      !.visitStartedAtMs = Null,
                      !.hasGreetedThisVisit = FALSE,
                      !.hasEmittedCooldownSuppressionThisVisit = FALSE],
           <<ExitEvent(detectedAtMs)>>)

(***************************************************************************)
(* update, stableCount <= 0: exit if present, then clear the visit.        *)
(***************************************************************************)
NoStableBranch(st, detectedAtMs) ==
    Result([st EXCEPT !.state = "noPresence",
                      !.visitStartedAtMs = Null,
                      !.hasGreetedThisVisit = FALSE,
                      !.hasEmittedCooldownSuppressionThisVisit = FALSE],
           IF st.state = "present" THEN <<ExitEvent(detectedAtMs)>> ELSE <<>>)

EnterBranch_NoTransition(st, cfg, stableCount, detectedAtMs) ==
    Result([st EXCEPT !.visitStartedAtMs = detectedAtMs,
                      !.hasGreetedThisVisit = FALSE,
                      !.hasEmittedCooldownSuppressionThisVisit = FALSE],
           <<EnterEvent(detectedAtMs, stableCount)>>)

EnterBranch_FallThrough(st, cfg, stableCount, detectedAtMs) ==
    LET entered == [st EXCEPT !.state = "present",
                              !.visitStartedAtMs = detectedAtMs,
                              !.hasGreetedThisVisit = FALSE,
                              !.hasEmittedCooldownSuppressionThisVisit = FALSE]
        rest == IF ~IsDwellReached(0, cfg) THEN Result(entered, <<>>)
                ELSE IF IsInCooldown(entered, cfg, detectedAtMs)
                THEN SuppressBranch(entered, stableCount, detectedAtMs, 0)
                ELSE GreetBranch(entered, stableCount, detectedAtMs, 0)
    IN  Result(rest.state, <<EnterEvent(detectedAtMs, stableCount)>> \o rest.events)

(***************************************************************************)
(* update, stableCount > 0 in noPresence: the visit starts.                *)
(***************************************************************************)
EnterBranch(st, cfg, stableCount, detectedAtMs) ==
    Result([st EXCEPT !.state = "present",
                      !.visitStartedAtMs = detectedAtMs,
                      !.hasGreetedThisVisit = FALSE,
                      !.hasEmittedCooldownSuppressionThisVisit = FALSE],
           <<EnterEvent(detectedAtMs, stableCount)>>)

UpdateResult_ReEnter(st, cfg, stableCount, detectedAtMs) ==
    IF stableCount <= 0 THEN NoStableBranch(st, detectedAtMs)
    ELSE EnterBranch(st, cfg, stableCount, detectedAtMs)

(***************************************************************************)
(* PresenceStateMachine.update: the new state and the returned events.     *)
(***************************************************************************)
UpdateResult(st, cfg, stableCount, detectedAtMs) ==
    IF stableCount <= 0 THEN NoStableBranch(st, detectedAtMs)
    ELSE IF st.state = "noPresence"
    THEN EnterBranch(st, cfg, stableCount, detectedAtMs)
    ELSE LET visitDurationMs == VisitDurationMs(st, detectedAtMs) IN
         IF AlreadyGreeted(st) THEN Result(st, <<>>)
         ELSE IF ~IsDwellReached(visitDurationMs, cfg) THEN Result(st, <<>>)
         ELSE IF IsInCooldown(st, cfg, detectedAtMs)
         THEN SuppressBranch(st, stableCount, detectedAtMs, visitDurationMs)
         ELSE GreetBranch(st, stableCount, detectedAtMs, visitDurationMs)

(***************************************************************************)
(* solveHungarianAssignment (the HungarianAssignment module).              *)
(*                                                                         *)
(* A cost matrix is a sequence of rows, costMatrix[i + 1][j + 1] being the *)
(* code's costMatrix[i][j].  The arrays u, v, p, way, minv and used are    *)
(* functions on 0..size, as in the 1-indexed code.  A number is a double:  *)
(* the finite ones are the integers from -MAX_VALUE to MAX_VALUE, the      *)
(* non-finite ones are three integers outside that range, and a sum or a   *)
(* difference that leaves the range is an infinity.                        *)
(***************************************************************************)
PosInfinity == 2000000000
NegInfinity == -2000000000
NaN == -1999999999

IsFinite(value) == value \notin {PosInfinity, NegInfinity, NaN}

(***************************************************************************)
(* The largest finite number.                                              *)
(***************************************************************************)
MAX_VALUE == 1900000000

(***************************************************************************)
(* a + b, a - b and a < b on numbers.                                      *)
(***************************************************************************)
Plus(a, b) ==
    IF a = NaN \/ b = NaN THEN NaN
    ELSE IF ~IsFinite(a) THEN (IF ~IsFinite(b) /\ b # a THEN NaN ELSE a)
    ELSE IF ~IsFinite(b) THEN b
    ELSE IF b > 0 /\ a > MAX_VALUE - b THEN PosInfinity
    ELSE IF b < 0 /\ a < (-MAX_VALUE) - b THEN NegInfinity
    ELSE a + b

Negated(a) ==
    IF a = PosInfinity THEN NegInfinity
    ELSE IF a = NegInfinity THEN PosInfinity
    ELSE IF a = NaN THEN NaN
    ELSE -a

Minus(a, b) == Plus(a, Negated(b))

LessThan(a, b) == a # NaN /\ b # NaN /\ a < b

LARGE_FINITE_COST == 1000000

NoError == "none"

AssertSquareCostMatrix_NoFiniteCheck(costMatrix) ==
    IF Len(costMatrix) = 0
    THEN "Cost matrix must be a non-empty square matrix"
    ELSE IF \E i \in 1..Len(costMatrix) : Len(costMatrix[i]) # Len(costMatrix)
    THEN "Cost matrix must be square (same row length)"
    ELSE NoError

(***************************************************************************)
(* assertSquareCostMatrix: the message of the error it throws, or NoError. *)
(* The rows are checked in order, the length of a row before its values.   *)
(***************************************************************************)
AssertSquareCostMatrix(costMatrix) ==
    IF Len(costMatrix) = 0
    THEN "Cost matrix must be a non-empty square matrix"
    ELSE LET size == Len(costMatrix)
             BadLength(i) == Len(costMatrix[i]) # size
             BadValue(i) == \E j \in 1..Len(costMatrix[i]) : ~IsFinite(costMatrix[i][j])
             Bad == {i \in 1..size : BadLength(i) \/ BadValue(i)}
         IN  IF Bad = {} THEN NoError
             ELSE LET first == CHOOSE i \in Bad : \A k \in Bad : i <= k
                  IN  IF BadLength(first)
                      THEN "Cost matrix must be square (same row length)"
                      ELSE "Cost matrix must contain only finite numbers"

ToFiniteCost(value) == IF ~IsFinite(value) THEN LARGE_FINITE_COST ELSE value

(***************************************************************************)
(* reducedCost of the cell (row0, c) under the potentials u and v.         *)
(***************************************************************************)
ReducedCost(costMatrix, row0, c, u, v) ==
    Minus(Minus(ToFiniteCost(costMatrix[row0][c]), u[row0]), v[c])

(***************************************************************************)
(* The scan `for columnIndex = 1..size` of one pass of the search loop,    *)
(* from column c on: it lowers minv over the unused columns, records the   *)
(* way back and finds delta and column1.                                   *)
(***************************************************************************)
RECURSIVE ScanColumns(_, _, _, _, _)
ScanColumns(costMatrix, size, row0, s, c) ==
    IF c > size THEN s
    ELSE IF s.used[c] THEN ScanColumns(costMatrix, size, row0, s, c + 1)
    ELSE LET reducedCost == ReducedCost(costMatrix, row0, c, s.u, s.v)
             lower == LessThan(reducedCost, s.minv[c])
             minv1 == IF lower THEN [s.minv EXCEPT ![c] = reducedCost] ELSE s.minv
             way1 == IF lower THEN [s.way EXCEPT ![c] = s.column0] ELSE s.way
             closer == LessThan(minv1[c], s.delta)
         IN  ScanColumns(costMatrix, size, row0,
                         [s EXCEPT !.minv = minv1,
                                   !.way = way1,
                                   !.delta = IF closer THEN minv1[c] ELSE s.delta,
                                   !.column1 = IF closer THEN c ELSE s.column1],
                         c + 1)

(***************************************************************************)
(* The loop `for columnIndex = 0..size` that shifts the potentials of the  *)
(* used columns and minv of the unused ones by delta, from column c on.    *)
(***************************************************************************)
RECURSIVE ShiftByDelta(_, _, _)
ShiftByDelta(size, s, c) ==
    IF c > size THEN s
    ELSE IF s.used[c]
    THEN ShiftByDelta(size,
                      [s EXCEPT !.u[s.p[c]] = Plus(@, s.delta),
                                !.v[c] = Minus(@, s.delta)],
                      c + 1)
    ELSE ShiftByDelta(size,
                      [s EXCEPT !.minv[c] = Minus(@, s.delta)],
                      c + 1)

(***************************************************************************)
(* The first do-while of a row: grow the alternating tree from column0     *)
(* until a free column (p[column0] = 0) is reached.  `passes` counts the   *)
(* passes; the guard throws when no unused column is left.                 *)
(***************************************************************************)
RECURSIVE AugmentSearch(_, _, _)
AugmentSearch(costMatrix, size, s) ==
    LET marked == [s EXCEPT !.used[s.column0] = TRUE,
                            !.delta = PosInfinity,
                            !.column1 = 0,
                            !.passes = @ + 1]
        row0 == marked.p[marked.column0]
        scanned == ScanColumns(costMatrix, size, row0, marked, 1)
    IN  IF ~IsFinite(scanned.delta)
        THEN [scanned EXCEPT !.error = "Hungarian assignment failed: delta became infinite"]
        ELSE LET shifted == ShiftByDelta(size, scanned, 0)
                 moved == [shifted EXCEPT !.column0 = shifted.column1]
             IN  IF moved.p[moved.column0] # 0
                 THEN AugmentSearch(costMatrix, size, moved)
                 ELSE moved

(***************************************************************************)
(* The second do-while of a row: flip the path back to column 0.           *)
(***************************************************************************)
RECURSIVE FlipPath(_, _, _)
FlipPath(p, way, column0) ==
    LET column1 == way[column0]
        p1 == [p EXCEPT ![column0] = p[column1]]
    IN  IF column1 # 0 THEN FlipPath(p1, way, column1) ELSE p1

(***************************************************************************)
(* The loop `for rowIndex = 1..size`, from row rowIndex on.                *)
(***************************************************************************)
RECURSIVE SolveRows(_, _, _, _)
SolveRows(costMatrix, size, h, rowIndex) ==
    IF rowIndex > size \/ h.error # NoError THEN h
    ELSE LET start == [u |-> h.u, v |-> h.v,
                       p |-> [h.p EXCEPT ![0] = rowIndex],
                       way |-> h.way,
                       minv |-> [c \in 0..size |-> PosInfinity],
                       used |-> [c \in 0..size |-> FALSE],
                       column0 |-> 0, column1 |-> 0, delta |-> PosInfinity,
                       passes |-> 0, error |-> NoError]
             found == AugmentSearch(costMatrix, size, start)
         IN  IF found.error # NoError
             THEN [h EXCEPT !.error = found.error,
                            !.maxPasses = Max(@, found.passes)]
             ELSE SolveRows(costMatrix, size,
                            [u |-> found.u, v |-> found.v,
                             p |-> FlipPath(found.p, found.way, found.column0),
                             way |-> found.way,
                             maxPasses |-> Max(h.maxPasses, found.passes),
                             error |-> NoError],
                            rowIndex + 1)

(***************************************************************************)
(* assignment[assignedRow - 1] = columnIndex - 1 for columnIndex = 1..size,*)
(* from column c on, starting from an array filled with -1.                *)
(***************************************************************************)
RECURSIVE ToAssignment(_, _, _, _)
ToAssignment(p, size, assignment, c) ==
    IF c > size THEN assignment
    ELSE IF p[c] <= 0 THEN ToAssignment(p, size, assignment, c + 1)
    ELSE ToAssignment(p, size, [assignment EXCEPT ![p[c] - 1] = c - 1], c + 1)

Thrown(message) == [error |-> message, assignment |-> <<>>, maxPasses |-> 0]

(***************************************************************************)
(* solveHungarianAssignment(costMatrix): the error it throws or the array  *)
(* assignment, a function on 0..size-1 (assignment[rowIndex] =             *)
(* columnIndex).                                                           *)
(***************************************************************************)
SolveHungarianAssignment(costMatrix) ==
    LET check == AssertSquareCostMatrix(costMatrix) IN
    IF check # NoError THEN Thrown(check)
    ELSE LET size == Len(costMatrix)
             zero == [c \in 0..size |-> 0]
             h == SolveRows(costMatrix, size,
                            [u |-> zero, v |-> zero, p |-> zero, way |-> zero,
                             maxPasses |-> 0, error |-> NoError], 1)
         IN  IF h.error # NoError THEN Thrown(h.error)
             ELSE [error |-> NoError,
                   assignment |-> ToAssignment(h.p, size,
                                               [r \in 0..(size - 1) |-> -1], 1),
                   maxPasses |-> h.maxPasses]

(***************************************************************************)
(* FaceTrackManager (app/vision/presence/FaceTrackManager.ts).             *)
(*                                                                         *)
(* Box coordinates are integers, in tenths of the frame.  An IoU, an IoU   *)
(* threshold and a cost are integers in hundredths: IoU 1.0 is CostScale,  *)
(* the cost of a pair is CostScale - IoU, UNASSIGNED_COST (0.99) is 99 and *)
(* UNMATCHABLE_COST (1,000,000) is 100,000,000.  The boxes of the model    *)
(* have IoUs that are whole hundredths, so the division is exact.          *)
(* tracks and detections are sequences; a detectionIndex and a row or      *)
(* column index count from 0 as in the code.                               *)
(***************************************************************************)
UNASSIGNED_COST == 99

UNMATCHABLE_COST_AsNoOverlap == UNASSIGNED_COST + 1

UNMATCHABLE_COST == 100000000

CostScale == UNASSIGNED_COST + 1

Min(a, b) == IF a <= b THEN a ELSE b

ComputeIntersectionOverUnion(a, b) ==
    LET ax1 == a.xMin
        ay1 == a.yMin
        ax2 == a.xMin + a.width
        ay2 == a.yMin + a.height
        bx1 == b.xMin
        by1 == b.yMin
        bx2 == b.xMin + b.width
        by2 == b.yMin + b.height
        ix1 == Max(ax1, bx1)
        iy1 == Max(ay1, by1)
        ix2 == Min(ax2, bx2)
        iy2 == Min(ay2, by2)
        intersectionWidth == Max(0, ix2 - ix1)
        intersectionHeight == Max(0, iy2 - iy1)
        intersectionArea == intersectionWidth * intersectionHeight
        areaA == Max(0, ax2 - ax1) * Max(0, ay2 - ay1)
        areaB == Max(0, bx2 - bx1) * Max(0, by2 - by1)
        unionArea == areaA + areaB - intersectionArea
    IN  IF unionArea <= 0 THEN 0
        ELSE (intersectionArea * CostScale) \div unionArea

PairCost_Inverted(iou) == iou

(***************************************************************************)
(* 1 - iou                                                                 *)
(***************************************************************************)
PairCost(iou) == CostScale - iou

BelowThreshold_Never(iou, cfg) == FALSE

(***************************************************************************)
(* iou < assignmentIouThreshold, the guard of the matrix and of the match. *)
(***************************************************************************)
BelowThreshold(iou, cfg) == iou < cfg.assignmentIouThreshold

(***************************************************************************)
(* One cell of the padded matrix (rowIndex, columnIndex from 0).           *)
(***************************************************************************)
CostCell(trackList, detections, cfg, rowIndex, columnIndex) ==
    LET hasTrack == rowIndex < Len(trackList)
        hasDetection == columnIndex < Len(detections)
    IN  IF ~hasTrack /\ ~hasDetection THEN 0
        ELSE IF ~hasTrack \/ ~hasDetection THEN UNASSIGNED_COST
        ELSE LET iou == ComputeIntersectionOverUnion(
                            trackList[rowIndex + 1].latestBoundingBox,
                            detections[columnIndex + 1].boundingBox)
             IN  IF BelowThreshold(iou, cfg) THEN UNMATCHABLE_COST
                 ELSE PairCost(iou)

ToSquareCostMatrix(trackList, detections, cfg) ==
    LET trackCount == Len(trackList)
        detectionCount == Len(detections)
        paddedSize == Max(trackCount, detectionCount)
    IN  [costMatrix |->
             [i \in 1..paddedSize |->
                 [j \in 1..paddedSize |->
                     CostCell(trackList, detections, cfg, i - 1, j - 1)]],
         paddedSize |-> paddedSize,
         trackCount |-> trackCount,
         detectionCount |-> detectionCount]

(***************************************************************************)
(* matchedDetectionIndexByTrackIndex[rowIndex] after the loop over the     *)
(* rows: the solver's column if it is a detection whose IoU with the       *)
(* track passes the guard, else -1.                                        *)
(***************************************************************************)
MatchedDetectionIndex_Greedy(trackList, detections, cfg, assignmentByRow, rowIndex) ==
    LET near == {columnIndex \in 0..(Len(detections) - 1) :
                    ~BelowThreshold(ComputeIntersectionOverUnion(
                                        trackList[rowIndex + 1].latestBoundingBox,
                                        detections[columnIndex + 1].boundingBox), cfg)}
    IN  IF near = {} THEN -1
        ELSE CHOOSE columnIndex \in near : \A other \in near : columnIndex <= other

MatchedDetectionIndex(trackList, detections, cfg, assignmentByRow, rowIndex) ==
    LET columnIndex == assignmentByRow[rowIndex]
        hasDetection == columnIndex >= 0 /\ columnIndex < Len(detections)
    IN  IF ~hasDetection THEN -1
        ELSE IF BelowThreshold(ComputeIntersectionOverUnion(
                                   trackList[rowIndex + 1].latestBoundingBox,
                                   detections[columnIndex + 1].boundingBox), cfg)
        THEN -1
        ELSE columnIndex

(***************************************************************************)
(* assignments, pushed in row order, from row rowIndex on.                 *)
(***************************************************************************)
RECURSIVE Assignments(_, _, _, _)
Assignments(trackList, detections, matched, rowIndex) ==
    IF rowIndex >= Len(trackList) THEN <<>>
    ELSE LET rest == Assignments(trackList, detections, matched, rowIndex + 1)
             columnIndex == matched[rowIndex]
         IN  IF columnIndex = -1 THEN rest
             ELSE LET iou == ComputeIntersectionOverUnion(
                                 trackList[rowIndex + 1].latestBoundingBox,
                                 detections[columnIndex + 1].boundingBox)
                  IN  <<[trackId |-> trackList[rowIndex + 1].trackId,
                         detectionIndex |-> columnIndex,
                         iou |-> iou,
                         cost |-> CostScale - iou]>> \o rest

ShouldEvict_AtLimit(nextMissedFrameCount, cfg) ==
    nextMissedFrameCount >= cfg.trackMaxMissedFrames

(***************************************************************************)
(* Guard: drop trackList that have been missing for too long.                 *)
(***************************************************************************)
ShouldEvict(nextMissedFrameCount, cfg) ==
    nextMissedFrameCount > cfg.trackMaxMissedFrames

MissedTrack_KeepsCount(track, nextMissedFrameCount) ==
    [track EXCEPT !.missedFrameCount = nextMissedFrameCount]

MissedTrack_Decays(track, nextMissedFrameCount) ==
    [track EXCEPT !.missedFrameCount = nextMissedFrameCount,
                  !.consecutiveMatchCount = Max(0, @ - 1)]

MissedTrack(track, nextMissedFrameCount) ==
    [track EXCEPT !.missedFrameCount = nextMissedFrameCount,
                  !.consecutiveMatchCount = 0]

MatchedTrack_KeepsMissed(track, detection, detectedAtMs) ==
    [track EXCEPT !.latestBoundingBox = detection.boundingBox,
                  !.latestConfidence = detection.confidence,
                  !.lastMatchedAtMs = detectedAtMs,
                  !.consecutiveMatchCount = track.consecutiveMatchCount + 1]

MatchedTrack_StaleBox(track, detection, detectedAtMs) ==
    [track EXCEPT !.lastMatchedAtMs = detectedAtMs,
                  !.missedFrameCount = 0,
                  !.consecutiveMatchCount = track.consecutiveMatchCount + 1]

MatchedTrack(track, detection, detectedAtMs) ==
    [track EXCEPT !.latestBoundingBox = detection.boundingBox,
                  !.latestConfidence = detection.confidence,
                  !.lastMatchedAtMs = detectedAtMs,
                  !.missedFrameCount = 0,
                  !.consecutiveMatchCount = track.consecutiveMatchCount + 1]

NewTrack_WallClock(trackId, detection, detectedAtMs) ==
    [trackId |-> trackId,
     latestBoundingBox |-> detection.boundingBox,
     latestConfidence |-> detection.confidence,
     firstMatchedAtMs |-> frame * TickMs,
     lastMatchedAtMs |-> detectedAtMs,
     missedFrameCount |-> 0,
     consecutiveMatchCount |-> 1]

NewTrack(trackId, detection, detectedAtMs) ==
    [trackId |-> trackId,
     latestBoundingBox |-> detection.boundingBox,
     latestConfidence |-> detection.confidence,
     firstMatchedAtMs |-> detectedAtMs,
     lastMatchedAtMs |-> detectedAtMs,
     missedFrameCount |-> 0,
     consecutiveMatchCount |-> 1]

Evict_Silent(rest, track) == rest

(***************************************************************************)
(* removedTrackIds.push(track.trackId); continue                           *)
(***************************************************************************)
Evict(rest, track) ==
    [rest EXCEPT !.removedTrackIds = <<track.trackId>> \o @]

(***************************************************************************)
(* The loop over this.tracks, from trackIndex on: the surviving tracks and    *)
(* the ids of the evicted ones.                                            *)
(***************************************************************************)
RECURSIVE Survivors(_, _, _, _, _, _)
Survivors(trackList, detections, cfg, matched, detectedAtMs, trackIndex) ==
    IF trackIndex >= Len(trackList) THEN [tracks |-> <<>>, removedTrackIds |-> <<>>]
    ELSE LET rest == Survivors(trackList, detections, cfg, matched, detectedAtMs,
                               trackIndex + 1)
             track == trackList[trackIndex + 1]
             detectionIndex == matched[trackIndex]
             nextMissedFrameCount == track.missedFrameCount + 1
         IN  IF detectionIndex = -1
             THEN IF ShouldEvict(nextMissedFrameCount, cfg)
                  THEN Evict(rest, track)
                  ELSE [rest EXCEPT !.tracks =
                            <<MissedTrack(track, nextMissedFrameCount)>> \o @]
             ELSE [rest EXCEPT !.tracks =
                       <<MatchedTrack(track, detections[detectionIndex + 1],
                                      detectedAtMs)>> \o @]

AfterCreate_SameId(nextId) == nextId

(***************************************************************************)
(* this.nextTrackId += 1                                                   *)
(***************************************************************************)
AfterCreate(nextId) == nextId + 1

(***************************************************************************)
(* The loop over the detections, from detectionIndex on: a new track for   *)
(* every detection that no track was matched to.                           *)
(***************************************************************************)
RECURSIVE Created(_, _, _, _, _)
Created(detections, matchedSet, detectedAtMs, nextId, detectionIndex) ==
    IF detectionIndex >= Len(detections)
    THEN [tracks |-> <<>>, createdTrackIds |-> <<>>, nextTrackId |-> nextId]
    ELSE IF detectionIndex \in matchedSet
    THEN Created(detections, matchedSet, detectedAtMs, nextId, detectionIndex + 1)
    ELSE LET rest == Created(detections, matchedSet, detectedAtMs,
                             AfterCreate(nextId), detectionIndex + 1)
         IN  [rest EXCEPT
                 !.tracks = <<NewTrack(nextId, detections[detectionIndex + 1],
                                       detectedAtMs)>> \o @,
                 !.createdTrackIds = <<nextId>> \o @]

IsStable_Strict(track, cfg) == track.consecutiveMatchCount > cfg.stableFramesRequired

IsStable(track, cfg) == track.consecutiveMatchCount >= cfg.stableFramesRequired

StableTracks_All(trackList, cfg) == trackList

RECURSIVE StableTracks(_, _)
StableTracks(trackList, cfg) ==
    IF trackList = <<>> THEN <<>>
    ELSE (IF IsStable(Head(trackList), cfg) THEN <<Head(trackList)>> ELSE <<>>)
         \o StableTracks(Tail(trackList), cfg)

(***************************************************************************)
(* FaceTrackManager.update, from its last statement back to its first.     *)
(* The return statement: kept and new are the results of the loops over    *)
(* this.tracks and over the detections.  The cost matrix and the solver's  *)
(* answer are kept with the result for the properties.                     *)
(***************************************************************************)
Returned_NewFirst(trackList, detections, cfg, costMatrix, assignmentByRow, matched, kept, new) ==
    [error |-> NoError,
     tracks |-> new.tracks \o kept.tracks,
     nextTrackId |-> new.nextTrackId,
     stableTracks |-> StableTracks(new.tracks \o kept.tracks, cfg),
     assignments |-> Assignments(trackList, detections, matched, 0),
     createdTrackIds |-> new.createdTrackIds,
     removedTrackIds |-> kept.removedTrackIds,
     costMatrix |-> costMatrix,
     assignmentByRow |-> assignmentByRow]

Returned(trackList, detections, cfg, costMatrix, assignmentByRow, matched, kept, new) ==
    [error |-> NoError,
     tracks |-> kept.tracks \o new.tracks,
     nextTrackId |-> new.nextTrackId,
     stableTracks |-> StableTracks(kept.tracks \o new.tracks, cfg),
     assignments |-> Assignments(trackList, detections, matched, 0),
     createdTrackIds |-> new.createdTrackIds,
     removedTrackIds |-> kept.removedTrackIds,
     costMatrix |-> costMatrix,
     assignmentByRow |-> assignmentByRow]

(***************************************************************************)
(* The two loops that build nextTracks, given the accepted matches.        *)
(***************************************************************************)
ApplyMatches(trackList, nextId, cfg, detections, detectedAtMs, costMatrix, assignmentByRow, matched) ==
    Returned(trackList, detections, cfg, costMatrix, assignmentByRow, matched,
             Survivors(trackList, detections, cfg, matched, detectedAtMs, 0),
             Created(detections, {matched[r] : r \in DOMAIN matched} \ {-1},
                     detectedAtMs, nextId, 0))

(***************************************************************************)
(* What follows the call of the solver: its error goes on to the caller    *)
(* (then nothing has changed), else the loop over the rows accepts the     *)
(* matches.                                                                *)
(***************************************************************************)
AfterSolve(trackList, nextId, cfg, detections, detectedAtMs, costMatrix, solvedCall) ==
    IF solvedCall.error # NoError
    THEN [error |-> solvedCall.error,
          tracks |-> trackList, nextTrackId |-> nextId,
          stableTracks |-> <<>>, assignments |-> <<>>,
          createdTrackIds |-> <<>>, removedTrackIds |-> <<>>,
          costMatrix |-> costMatrix, assignmentByRow |-> <<>>]
    ELSE ApplyMatches(trackList, nextId, cfg, detections, detectedAtMs, costMatrix,
                      solvedCall.assignment,
                      [rowIndex \in 0..(Len(trackList) - 1) |->
                          MatchedDetectionIndex(trackList, detections, cfg,
                                                solvedCall.assignment, rowIndex)])

SolveFor(trackList, nextId, cfg, detections, detectedAtMs, costMatrix) ==
    AfterSolve(trackList, nextId, cfg, detections, detectedAtMs, costMatrix,
               SolveHungarianAssignment(costMatrix))

(***************************************************************************)
(* FaceTrackManager.update: the error it throws or the new tracks, the new *)
(* nextTrackId and the TrackUpdateResult.                                  *)
(***************************************************************************)
TrackUpdate(trackList, nextId, cfg, detections, detectedAtMs) ==
    SolveFor(trackList, nextId, cfg, detections, detectedAtMs,
             ToSquareCostMatrix(trackList, detections, cfg).costMatrix)

(***************************************************************************)
(* Observers.                                                              *)
(***************************************************************************)
Count(evs, type) == Cardinality({i \in 1..Len(evs) : evs[i].type = type})

Has(evs, type) == Count(evs, type) > 0

RECURSIVE GreetTimes(_)
GreetTimes(evs) ==
    IF evs = <<>> THEN <<>>
    ELSE (IF Head(evs).type = "greet" THEN <<Head(evs).detectedAtMs>> ELSE <<>>)
         \o GreetTimes(Tail(evs))

NextShape(s, stableCount) ==
    IF s \in {"fresh", "ones"} /\ stableCount > 0 THEN "ones"
    ELSE IF s = "ones" THEN "onesThenZero"
    ELSE "other"

NextFollowUp(f, st, cfg, evs, detectedAtMs) ==
    IF Has(evs, "exit")
    THEN (IF st.hasGreetedThisVisit THEN "armed" ELSE "none")
    ELSE IF Has(evs, "enter")
    THEN (IF /\ f = "armed"
             /\ st.lastGreetedAtMs # Null
             /\ detectedAtMs - st.lastGreetedAtMs < cfg.greetCooldownMs
          THEN "active" ELSE "none")
    ELSE f

NotSolved == [error |-> "not called", assignment |-> <<>>, maxPasses |-> 0]

SolverIdle == givenMatrix = <<>> /\ solved = NotSolved

(***************************************************************************)
(* filterDetectionsForPresence.  Here a box is in eighths of the frame     *)
(* (GridUnit stands for 1), a box center in sixteenths, an area ratio in   *)
(* sixty-fourths and a confidence in hundredths: on this grid the          *)
(* floating-point sums and products of the code are exact.                 *)
(***************************************************************************)
GridUnit == 8

ClampToUnit(value) ==
    IF ~IsFinite(value) THEN 0
    ELSE IF value < 0 THEN 0
    ELSE IF value > GridUnit THEN GridUnit
    ELSE value

GetBoxCenter(box) ==
    [x |-> 2 * box.xMin + box.width, y |-> 2 * box.yMin + box.height]

ComputeAreaRatio(box) == ClampToUnit(box.width) * ClampToUnit(box.height)

IsInInteractionZone_Exclusive(boundingBox, interactionZoneMarginRatio) ==
    LET margin == interactionZoneMarginRatio
        center == GetBoxCenter(boundingBox)
        min == 2 * margin
        max == 2 * (GridUnit - margin)
    IN  center.x > min /\ center.x < max /\ center.y > min /\ center.y < max

IsInInteractionZone(boundingBox, interactionZoneMarginRatio) ==
    LET margin == interactionZoneMarginRatio
        center == GetBoxCenter(boundingBox)
        min == 2 * margin
        max == 2 * (GridUnit - margin)
    IN  center.x >= min /\ center.x <= max /\ center.y >= min /\ center.y <= max

RejectionReasons_FirstOnly(detection, minimum, cfg) ==
    IF detection.confidence < minimum THEN <<"belowMinConfidence">>
    ELSE IF ComputeAreaRatio(detection.boundingBox) < cfg.minFaceAreaRatio
    THEN <<"belowMinFaceAreaRatio">>
    ELSE IF ~IsInInteractionZone(detection.boundingBox, cfg.interactionZoneMarginRatio)
    THEN <<"outsideInteractionZone">>
    ELSE <<>>

(***************************************************************************)
(* The body of the loop: the rejection reasons of one detection.           *)
(***************************************************************************)
RejectionReasons(detection, minimum, cfg) ==
    (IF detection.confidence < minimum THEN <<"belowMinConfidence">> ELSE <<>>)
    \o (IF ComputeAreaRatio(detection.boundingBox) < cfg.minFaceAreaRatio
        THEN <<"belowMinFaceAreaRatio">> ELSE <<>>)
    \o (IF ~IsInInteractionZone(detection.boundingBox, cfg.interactionZoneMarginRatio)
        THEN <<"outsideInteractionZone">> ELSE <<>>)

RECURSIVE FilterFrom(_, _, _, _, _)
FilterFrom(detections, minimum, cfg, index, result) ==
    IF index > Len(detections) THEN result
    ELSE FilterFrom(detections, minimum, cfg, index + 1,
             IF Len(RejectionReasons(detections[index], minimum, cfg)) > 0
             THEN [result EXCEPT !.rejectedDetections =
                      Append(@, [detection |-> detections[index],
                                 rejectionReasons |->
                                     RejectionReasons(detections[index], minimum, cfg)])]
             ELSE [result EXCEPT !.acceptedDetections = Append(@, detections[index])])

FilterDetectionsForPresence(detections, minimum, cfg) ==
    FilterFrom(detections, minimum, cfg, 1,
               [status |-> "returned", acceptedDetections |-> <<>>,
                rejectedDetections |-> <<>>])

NoFilterResult ==
    [status |-> "not called", acceptedDetections |-> <<>>, rejectedDetections |-> <<>>]

FilterIdle ==
    /\ minConfidence = 0
    /\ filterSettings = [minFaceAreaRatio |-> 0, interactionZoneMarginRatio |-> 0]
    /\ candidates = <<>>
    /\ filtered = NoFilterResult

NoReplay == [inputs |-> <<>>, phase |-> "constructed"]

ReplayIdle == trackReplay = NoReplay /\ presenceReplay = NoReplay

(***************************************************************************)
(* toPresenceEventText (app/vision/presence/presenceEventText.ts).  A text *)
(* is a sequence of pieces, a template one in which the piece "{count}"    *)
(* may occur; the result is null or a text.                                *)
(***************************************************************************)
Digits == <<"0", "1", "2", "3", "4", "5", "6", "7", "8", "9">>

RECURSIVE String(_)
String(n) ==
    IF n < 0 THEN <<"-">> \o String(-n)
    ELSE IF n < 10 THEN <<Digits[n + 1]>>
    ELSE String(n \div 10) \o <<Digits[(n % 10) + 1]>>

RECURSIVE ReplaceAll(_, _, _)
ReplaceAll(text, pattern, replacement) ==
    IF text = <<>> THEN <<>>
    ELSE (IF Head(text) = pattern THEN replacement ELSE <<Head(text)>>)
         \o ReplaceAll(Tail(text), pattern, replacement)

NullText == [isNull |-> TRUE, text |-> <<>>]

ToPresenceEventText_AnyEvent(event, template) ==
    [isNull |-> FALSE,
     text |-> ReplaceAll(template, "{count}", String(event.stableCount))]

ToPresenceEventText(event, template) ==
    IF event.type # "greet" THEN NullText
    ELSE [isNull |-> FALSE,
          text |-> ReplaceAll(template, "{count}", String(event.stableCount))]

(***************************************************************************)
(* !eventText: null and the empty string.                                  *)
(***************************************************************************)
IsFalsy(eventText) == eventText.isNull \/ eventText.text = <<>>

(***************************************************************************)
(* The loop `for (const event of presenceEvents)` of the callback: the     *)
(* texts passed to sendMessage, in order.                                  *)
(***************************************************************************)
RECURSIVE SendLoop(_, _, _)
SendLoop(presenceEvents, template, streaming) ==
    IF presenceEvents = <<>> THEN <<>>
    ELSE LET eventText == ToPresenceEventText(Head(presenceEvents), template)
             rest == SendLoop(Tail(presenceEvents), template, streaming)
         IN  IF IsFalsy(eventText) THEN rest
             ELSE IF streaming THEN rest
             ELSE <<eventText.text>> \o rest

DefaultTemplate == <<"faces:", "{count}">>

PageIdle ==
    /\ isAssistantStreaming = FALSE
    /\ eventTextTemplate = DefaultTemplate
    /\ sentMessages = <<>>
    /\ streamingSeen = FALSE
    /\ sentThisVisit = 0
    /\ droppedThisVisit = FALSE

NoTrackResult ==
    [error |-> "not called", tracks |-> <<>>, nextTrackId |-> 1,
     stableTracks |-> <<>>, assignments |-> <<>>,
     createdTrackIds |-> <<>>, removedTrackIds |-> <<>>,
     costMatrix |-> <<>>, assignmentByRow |-> <<>>]

Range(seq) == {seq[i] : i \in DOMAIN seq}

TrackIds(trackList) == {trackList[i].trackId : i \in DOMAIN trackList}

MatchedIds(r) == {r.assignments[i].trackId : i \in DOMAIN r.assignments}

(***************************************************************************)
(* The log after an update that returned r as the frame-th update.         *)
(***************************************************************************)
NextTrackLog(log, r, frameNumber) ==
    [id \in TrackIds(r.tracks) |->
        IF id \in Range(r.createdTrackIds)
        THEN [createdAtFrame |-> frameNumber, lastMissFrame |-> 0]
        ELSE IF id \in MatchedIds(r) THEN log[id]
        ELSE [log[id] EXCEPT !.lastMissFrame = frameNumber]]

TrackFresh(cfg, call) ==
    /\ tracks = <<>>
    /\ nextTrackId = 1
    /\ trackSettings = cfg
    /\ givenDetections = <<>>
    /\ trackResult = NoTrackResult
    /\ trackOp = call
    /\ frame = 0
    /\ issuedIds = <<>>
    /\ trackLog = <<>>
    /\ fresh = {}
    /\ prevFresh = {}

TrackerIdle ==
    /\ trackPrev = <<>>
    /\ TrackFresh([assignmentIouThreshold |-> 0, trackMaxMissedFrames |-> 0,
                   stableFramesRequired |-> 1], "new")

Fresh(cfg, call) ==
    /\ state = INITIAL_STATE
    /\ settings = cfg
    /\ events = <<>>
    /\ params = [stableCount |-> 0, detectedAtMs |-> 0]
    /\ op = call
    /\ callCount = 0
    /\ monotonic = TRUE
    /\ onesAtTicks = TRUE
    /\ shape = "fresh"
    /\ firstEvents = <<>>
    /\ enterCount = 0
    /\ exitCount = 0
    /\ greetLog = <<>>
    /\ greetsThisVisit = 0
    /\ suppressedThisVisit = 0
    /\ followUpVisit = "none"

(***************************************************************************)
(* new PresenceStateMachine(settings)                                      *)
(***************************************************************************)
Init ==
    /\ \E dwell \in DwellValues, cooldown \in CooldownValues :
        /\ prev = INITIAL_STATE
        /\ Fresh([dwellMsToGreet |-> dwell, greetCooldownMs |-> cooldown], "new")
    /\ SolverIdle
    /\ TrackerIdle
    /\ ReplayIdle
    /\ FilterIdle
    /\ PageIdle

(***************************************************************************)
(* update({stableCount, detectedAtMs})                                     *)
(***************************************************************************)
UpdateWith(stableCount, detectedAtMs) ==
        LET r == UpdateResult(state, settings, stableCount, detectedAtMs)
            evs == r.events
        IN  /\ state' = r.state
            /\ events' = evs
            /\ params' = [stableCount |-> stableCount, detectedAtMs |-> detectedAtMs]
            /\ prev' = state
            /\ op' = "update"
            /\ callCount' = callCount + 1
            /\ monotonic' = (monotonic /\ (callCount = 0 \/ detectedAtMs >= params.detectedAtMs))
            /\ onesAtTicks' = (onesAtTicks /\ stableCount = 1
                                /\ detectedAtMs = callCount * TickMs)
            /\ shape' = NextShape(shape, stableCount)
            /\ firstEvents' = IF callCount = 0 THEN evs ELSE firstEvents
            /\ enterCount' = enterCount + Count(evs, "enter")
            /\ exitCount' = exitCount + Count(evs, "exit")
            /\ greetLog' = greetLog \o GreetTimes(evs)
            /\ greetsThisVisit' =
                   (IF Has(evs, "enter") THEN 0 ELSE greetsThisVisit) + Count(evs, "greet")
            /\ suppressedThisVisit' =
                   (IF Has(evs, "enter") THEN 0 ELSE suppressedThisVisit)
                   + Count(evs, "greet-suppressed")
            /\ followUpVisit' = NextFollowUp(followUpVisit, state, settings, evs, detectedAtMs)
            /\ UNCHANGED settings

Update ==
    /\ callCount < MaxCalls
    /\ \E stableCount \in StableCounts, detectedAtMs \in Timestamps :
           UpdateWith(stableCount, detectedAtMs)
    /\ UNCHANGED <<solverVars, trackVars, replayVars, filterVars, pageVars>>

ResetState_KeepsLastGreet(st) ==
    [INITIAL_STATE EXCEPT !.lastGreetedAtMs = st.lastGreetedAtMs]

(***************************************************************************)
(* reset(): this.state = INITIAL_STATE                                     *)
(***************************************************************************)
ResetState(st) == INITIAL_STATE

ResetWith ==
    /\ prev' = state
    /\ state' = ResetState(state)
    /\ events' = <<>>
    /\ params' = [stableCount |-> 0, detectedAtMs |-> 0]
    /\ op' = "reset"
    /\ callCount' = 0
    /\ monotonic' = TRUE
    /\ onesAtTicks' = TRUE
    /\ shape' = "fresh"
    /\ firstEvents' = <<>>
    /\ enterCount' = 0
    /\ exitCount' = 0
    /\ greetLog' = <<>>
    /\ greetsThisVisit' = 0
    /\ suppressedThisVisit' = 0
    /\ followUpVisit' = "none"
    /\ UNCHANGED settings

Reset == ResetWith /\ UNCHANGED <<solverVars, trackVars, replayVars, filterVars, pageVars>>

Next == Update \/ Reset

Spec == Init /\ [][Next]_vars

(***************************************************************************)
(* The solver on its own: every square matrix of size 1 to 3 over the      *)
(* costs 0..MaxCost, every 4 x 4 matrix over the costs 0 and 1, the        *)
(* 2 x 2 matrices of costs of the largest magnitudes, and the matrices     *)
(* assertSquareCostMatrix refuses.                                         *)
(***************************************************************************)
CostValues == 0..MaxCost

FullSizes == {1, 2, 3}

SquareMatrices ==
    UNION {[1..n -> [1..n -> CostValues]] : n \in FullSizes}
    \cup [1..4 -> [1..4 -> {0, 1}]]

SmallMatrices == [1..2 -> [1..2 -> {0, MaxCost}]]

(***************************************************************************)
(* Finite costs so large that the difference of two of them is not finite  *)
(* (1e308 and -1e308 for a double).                                        *)
(***************************************************************************)
HugeCost == 1000000000

ExtremeMatrices == [1..2 -> [1..2 -> {-HugeCost, 0, HugeCost}]]

RaggedMatrices ==
    {[m EXCEPT ![i] = Tail(m[i])] : m \in SmallMatrices, i \in 1..2}
    \cup {[m EXCEPT ![i] = Append(m[i], 0)] : m \in SmallMatrices, i \in 1..2}

NonFiniteMatrices ==
    {[m EXCEPT ![i][j] = x] :
        m \in SmallMatrices, i \in 1..2, j \in 1..2,
        x \in {NaN, PosInfinity, NegInfinity}}

PresenceIdle ==
    /\ prev = INITIAL_STATE
    /\ Fresh([dwellMsToGreet |-> 0, greetCooldownMs |-> 0], "new")

HungarianInit ==
    /\ PresenceIdle
    /\ TrackerIdle
    /\ ReplayIdle
    /\ FilterIdle
    /\ PageIdle
    /\ givenMatrix \in SquareMatrices \cup ExtremeMatrices \cup {<<>>}
                       \cup RaggedMatrices \cup NonFiniteMatrices
    /\ solved = NotSolved

Solve ==
    /\ solved = NotSolved
    /\ solved' = SolveHungarianAssignment(givenMatrix)
    /\ UNCHANGED <<givenMatrix, presenceVars, trackVars, replayVars, filterVars, pageVars>>

HungarianNext == Solve

HungarianSpec == HungarianInit /\ [][HungarianNext]_vars

(***************************************************************************)
(* FaceTrackManager on its own.  The detector reports faces of one size at *)
(* the offsets BoxOffsets: two of them have IoU 1/2, 1/5 or 0.  No two     *)
(* detections of a frame are the same box.  The i-th frame is stamped      *)
(* i * TickMs, and the scores differ from frame to frame and from          *)
(* detection to detection.                                                 *)
(***************************************************************************)
BoxOffsets == {0, 1, 3}

IouThresholds == {0, 20, 50}

MissedFrameLimits == {0, 1}

StableFrameCounts == {1, 2}

Box(offset) == [xMin |-> offset, yMin |-> 2, width |-> 3, height |-> 3]

Score(frameNumber, index) == 90 - 10 * index - frameNumber

OffsetLists ==
    {list \in UNION {[1..n -> BoxOffsets] : n \in 0..MaxDetections} :
        \A i, j \in DOMAIN list : i # j => list[i] # list[j]}

DetectionsAt(offsets, frameNumber) ==
    [i \in DOMAIN offsets |->
        [confidence |-> Score(frameNumber, i), boundingBox |-> Box(offsets[i])]]

(***************************************************************************)
(* new FaceTrackManager(settings)                                          *)
(***************************************************************************)
TrackInit ==
    /\ PresenceIdle
    /\ SolverIdle
    /\ ReplayIdle
    /\ FilterIdle
    /\ PageIdle
    /\ trackPrev = <<>>
    /\ \E threshold \in IouThresholds, limit \in MissedFrameLimits,
          required \in StableFrameCounts :
           TrackFresh([assignmentIouThreshold |-> threshold,
                       trackMaxMissedFrames |-> limit,
                       stableFramesRequired |-> required], "new")

(***************************************************************************)
(* update({detections, detectedAtMs})                                      *)
(***************************************************************************)
TrackUpdateWith(given, detectedAtMs) ==
    /\ trackResult' = TrackUpdate(tracks, nextTrackId, trackSettings, given, detectedAtMs)
    /\ tracks' = trackResult'.tracks
    /\ nextTrackId' = trackResult'.nextTrackId
    /\ givenDetections' = given
    /\ trackPrev' = tracks
    /\ trackOp' = "update"
    /\ frame' = frame + 1
    /\ issuedIds' = issuedIds \o trackResult'.createdTrackIds
    /\ trackLog' = IF trackResult'.error # NoError THEN trackLog
                   ELSE NextTrackLog(trackLog, trackResult', frame + 1)
    /\ fresh' = MatchedIds(trackResult') \cup Range(trackResult'.createdTrackIds)
    /\ prevFresh' = fresh
    /\ UNCHANGED trackSettings

TrackUpdateAction ==
    /\ frame < MaxFrames
    /\ \E offsets \in OffsetLists :
           TrackUpdateWith(DetectionsAt(offsets, frame + 1), (frame + 1) * TickMs)
    /\ UNCHANGED <<presenceVars, solverVars, replayVars, filterVars, pageVars>>

(***************************************************************************)
(* reset()                                                                 *)
(***************************************************************************)
TrackResetWith ==
    /\ tracks' = <<>>
    /\ nextTrackId' = 1
    /\ givenDetections' = <<>>
    /\ trackResult' = NoTrackResult
    /\ trackPrev' = tracks
    /\ trackOp' = "reset"
    /\ frame' = 0
    /\ issuedIds' = <<>>
    /\ trackLog' = <<>>
    /\ fresh' = {}
    /\ prevFresh' = {}
    /\ UNCHANGED trackSettings

TrackReset == TrackResetWith /\ UNCHANGED <<presenceVars, solverVars, replayVars, filterVars, pageVars>>

TrackNext == TrackUpdateAction \/ TrackReset

TrackSpec == TrackInit /\ [][TrackNext]_vars

(***************************************************************************)
(* The detection interval callback of startCamera (app/page.tsx): the      *)
(* accepted detections go to FaceTrackManager.update, and the length of    *)
(* its stableTracks to PresenceStateMachine.update with the same           *)
(* timestamp.  When the tracker throws, the callback ends there.           *)
(***************************************************************************)
StableCountOf_AllTracks(trackUpdate) == Len(trackUpdate.tracks)

StableCountOf(trackUpdate) == Len(trackUpdate.stableTracks)

Frame(given, detectedAtMs) ==
    /\ TrackUpdateWith(given, detectedAtMs)
    /\ IF trackResult'.error # NoError
       THEN UNCHANGED presenceVars
       ELSE UpdateWith(StableCountOf(trackResult'), detectedAtMs)
    /\ UNCHANGED solverVars

(***************************************************************************)
(* Three faces that do not overlap, held where they are for HoldFrames     *)
(* frames, with stableFramesRequired = 4.                                  *)
(***************************************************************************)
HoldOffsets == 0..7

HeldTriples ==
    {triple \in [1..3 -> HoldOffsets] :
        \A i, j \in 1..3 :
           i # j => ComputeIntersectionOverUnion(Box(triple[i]), Box(triple[j])) = 0}

OffsetsOf(given) == [i \in DOMAIN given |-> given[i].boundingBox.xMin]

HoldInit ==
    /\ SolverIdle
    /\ ReplayIdle
    /\ FilterIdle
    /\ PageIdle
    /\ prev = INITIAL_STATE
    /\ trackPrev = <<>>
    /\ \E dwell \in DwellValues, cooldown \in CooldownValues :
          Fresh([dwellMsToGreet |-> dwell, greetCooldownMs |-> cooldown], "new")
    /\ \E threshold \in IouThresholds, limit \in MissedFrameLimits :
          TrackFresh([assignmentIouThreshold |-> threshold,
                      trackMaxMissedFrames |-> limit,
                      stableFramesRequired |-> 4], "new")

HoldFrame ==
    /\ frame < HoldFrames
    /\ \E offsets \in (IF frame = 0 THEN HeldTriples ELSE {OffsetsOf(givenDetections)}) :
          Frame(DetectionsAt(offsets, frame + 1), (frame + 1) * TickMs)
    /\ UNCHANGED <<replayVars, filterVars, pageVars>>

HoldNext == HoldFrame

HoldSpec == HoldInit /\ [][HoldNext]_vars

(***************************************************************************)
(* The constructors.  Both store the settings they are given.              *)
(***************************************************************************)
WellFormedTrackSettings(cfg) ==
    /\ IsFinite(cfg.assignmentIouThreshold) /\ cfg.assignmentIouThreshold >= 0
    /\ IsFinite(cfg.trackMaxMissedFrames) /\ cfg.trackMaxMissedFrames >= 0
    /\ IsFinite(cfg.stableFramesRequired) /\ cfg.stableFramesRequired >= 0

WellFormedPresenceSettings(cfg) ==
    /\ IsFinite(cfg.dwellMsToGreet) /\ cfg.dwellMsToGreet >= 0
    /\ IsFinite(cfg.greetCooldownMs) /\ cfg.greetCooldownMs >= 0

NewFaceTrackManager_Validating(cfg) ==
    [error |-> IF WellFormedTrackSettings(cfg) THEN NoError ELSE "Invalid settings",
     settings |-> cfg]

NewFaceTrackManager(cfg) == [error |-> NoError, settings |-> cfg]

NewPresenceStateMachine(cfg) == [error |-> NoError, settings |-> cfg]

Constructed(instance) == IF instance.error = NoError THEN "new" ELSE "rejected"

(***************************************************************************)
(* The two classes built with any settings, malformed ones included, and   *)
(* run by the callback: well-formed settings and the settings that differ  *)
(* from them in one malformed value.  A setting is only ever compared, so  *)
(* the infinite values stand for themselves.                               *)
(***************************************************************************)
GoodTrackConfig ==
    [assignmentIouThreshold |-> 50, trackMaxMissedFrames |-> 1,
     stableFramesRequired |-> 1]

GoodPresenceConfig == [dwellMsToGreet |-> 0, greetCooldownMs |-> 0]

TrackConfigs ==
    {GoodTrackConfig}
    \cup {[GoodTrackConfig EXCEPT !.assignmentIouThreshold = x] :
             x \in {-10, PosInfinity, NegInfinity}}
    \cup {[GoodTrackConfig EXCEPT !.trackMaxMissedFrames = -1],
          [GoodTrackConfig EXCEPT !.stableFramesRequired = -1]}

PresenceConfigs ==
    {GoodPresenceConfig}
    \cup {[GoodPresenceConfig EXCEPT !.dwellMsToGreet = x] : x \in {-TickMs, PosInfinity}}
    \cup {[GoodPresenceConfig EXCEPT !.greetCooldownMs = -TickMs]}

ConfigInit ==
    /\ SolverIdle
    /\ ReplayIdle
    /\ FilterIdle
    /\ PageIdle
    /\ prev = INITIAL_STATE
    /\ trackPrev = <<>>
    /\ \E cfg \in PresenceConfigs :
          Fresh(NewPresenceStateMachine(cfg).settings,
                Constructed(NewPresenceStateMachine(cfg)))
    /\ \E cfg \in TrackConfigs :
          TrackFresh(NewFaceTrackManager(cfg).settings,
                     Constructed(NewFaceTrackManager(cfg)))

ConfigFrame ==
    /\ op # "rejected"
    /\ trackOp # "rejected"
    /\ frame < MaxTick
    /\ \E offsets \in OffsetLists :
          Frame(DetectionsAt(offsets, frame + 1), (frame + 1) * TickMs)
    /\ UNCHANGED <<replayVars, filterVars, pageVars>>

ConfigNext == ConfigFrame

ConfigSpec == ConfigInit /\ [][ConfigNext]_vars

(***************************************************************************)
(* The callback run on one pair of instances, which may be reset at any     *)
(* time (stopCamera resets both, app/page.tsx); every input an instance   *)
(* gets is recorded.  The boxes at offsets 0 and 2 overlap the    *)
(* box at offset 1 equally.                                                *)
(***************************************************************************)
ReplayOffsetLists == {<<>>, <<0>>, <<1>>, <<0, 2>>, <<2, 0>>}

Fed(replay, input) == [replay EXCEPT !.inputs = Append(@, input)]

Cleared(replay, mark) ==
    [inputs |-> <<>>,
     phase |-> IF replay.inputs # <<>> THEN mark
               ELSE IF replay.phase = "constructed" THEN "reset"
               ELSE replay.phase]

ReplayInit ==
    /\ SolverIdle
    /\ ReplayIdle
    /\ FilterIdle
    /\ PageIdle
    /\ prev = INITIAL_STATE
    /\ trackPrev = <<>>
    /\ \E dwell \in {0, TickMs}, cooldown \in {0, MaxCooldownTicks * TickMs} :
          Fresh([dwellMsToGreet |-> dwell, greetCooldownMs |-> cooldown], "new")
    /\ \E limit \in MissedFrameLimits :
          TrackFresh([assignmentIouThreshold |-> 20,
                      trackMaxMissedFrames |-> limit,
                      stableFramesRequired |-> 1], "new")

ReplayFrameWith(given, detectedAtMs) ==
    /\ Frame(given, detectedAtMs)
    /\ trackReplay' = Fed(trackReplay, [detections |-> given,
                                        detectedAtMs |-> detectedAtMs])
    /\ presenceReplay' =
           IF trackResult'.error # NoError THEN presenceReplay
           ELSE Fed(presenceReplay, [stableCount |-> StableCountOf(trackResult'),
                                     detectedAtMs |-> detectedAtMs])
    /\ UNCHANGED <<filterVars, pageVars>>

ReplayFrame ==
    /\ frame < MaxFrames
    /\ Len(presenceReplay.inputs) < MaxFrames
    /\ \E offsets \in ReplayOffsetLists :
          ReplayFrameWith(DetectionsAt(offsets, frame + 1), (frame + 1) * TickMs)

(***************************************************************************)
(* stopCamera: faceTrackManagerRef.current?.reset() and                    *)
(* presenceStateMachineRef.current?.reset()                                *)
(***************************************************************************)
ReplayReset ==
    /\ TrackResetWith
    /\ ResetWith
    /\ trackReplay' = Cleared(trackReplay, "reset after calls")
    /\ presenceReplay' =
           Cleared(presenceReplay, IF state.lastGreetedAtMs # Null
                                   THEN "reset after greet"
                                   ELSE "reset after calls")
    /\ UNCHANGED <<solverVars, filterVars, pageVars>>

ReplayNext == ReplayFrame \/ ReplayReset

ReplaySpec == ReplayInit /\ [][ReplayNext]_vars

(***************************************************************************)
(* The page: the detection interval callback with its send loop, while the *)
(* assistant starts and stops streaming at any time.  One or two faces     *)
(* that do not overlap come and go.  A callback that returns at one of its *)
(* guards (presence disabled, no detection result) changes nothing.        *)
(***************************************************************************)
PageOffsetLists == {<<>>, <<0>>, <<3>>, <<0, 3>>}

Templates == {<<>>, DefaultTemplate}

PageInit ==
    /\ SolverIdle
    /\ ReplayIdle
    /\ FilterIdle
    /\ prev = INITIAL_STATE
    /\ trackPrev = <<>>
    /\ \E cooldown \in {0, (MaxPageFrames - 1) * TickMs} :
          Fresh([dwellMsToGreet |-> TickMs, greetCooldownMs |-> cooldown], "new")
    /\ \E limit \in MissedFrameLimits, required \in StableFrameCounts :
          TrackFresh([assignmentIouThreshold |-> 20,
                      trackMaxMissedFrames |-> limit,
                      stableFramesRequired |-> required], "new")
    /\ isAssistantStreaming = FALSE
    /\ eventTextTemplate \in Templates
    /\ sentMessages = <<>>
    /\ streamingSeen = FALSE
    /\ sentThisVisit = 0
    /\ droppedThisVisit = FALSE

PageFrameWith(given, detectedAtMs) ==
    /\ Frame(given, detectedAtMs)
    /\ sentMessages' = IF trackResult'.error # NoError THEN <<>>
                       ELSE SendLoop(events', eventTextTemplate, isAssistantStreaming)
    /\ streamingSeen' = isAssistantStreaming
    /\ sentThisVisit' =
           IF trackResult'.error # NoError THEN sentThisVisit
           ELSE (IF Has(events', "enter") THEN 0 ELSE sentThisVisit) + Len(sentMessages')
    /\ droppedThisVisit' =
           IF trackResult'.error # NoError THEN droppedThisVisit
           ELSE \/ ~Has(events', "enter") /\ droppedThisVisit
                \/ Has(events', "greet") /\ isAssistantStreaming
    /\ UNCHANGED <<isAssistantStreaming, eventTextTemplate, replayVars, filterVars>>

PageFrame ==
    /\ frame < MaxPageFrames
    /\ \E offsets \in PageOffsetLists :
          PageFrameWith(DetectionsAt(offsets, frame + 1), (frame + 1) * TickMs)

(***************************************************************************)
(* useEffect: isAssistantStreamingRef.current = isAssistantStreaming       *)
(***************************************************************************)
SetAssistantStreaming ==
    /\ isAssistantStreaming' = ~isAssistantStreaming
    /\ UNCHANGED <<eventTextTemplate, sentMessages, streamingSeen, sentThisVisit,
                   droppedThisVisit>>
    /\ UNCHANGED <<presenceVars, solverVars, trackVars, replayVars, filterVars>>

PageNext == PageFrame \/ SetAssistantStreaming

PageSpec == PageInit /\ [][PageNext]_vars

(***************************************************************************)
(* filterDetectionsForPresence called with lists of detections whose       *)
(* fields lie on, inside and outside each boundary.                        *)
(***************************************************************************)
Confidences == {40, 50}

LeftEdges == {0, 1, 4}

TopEdges == {1, 4, 6}

Sizes == {2, 4}

Candidates ==
    {[confidence |-> confidence,
      boundingBox |-> [xMin |-> xMin, yMin |-> yMin, width |-> width, height |-> height]] :
        confidence \in Confidences, xMin \in LeftEdges, yMin \in TopEdges,
        width \in Sizes, height \in Sizes}

CandidateLists == UNION {[1..n -> Candidates] : n \in 0..MaxDetections}

FilterInit ==
    /\ PresenceIdle
    /\ SolverIdle
    /\ TrackerIdle
    /\ ReplayIdle
    /\ PageIdle
    /\ minConfidence \in {40, 50}
    /\ filterSettings \in [minFaceAreaRatio : {8, 16}, interactionZoneMarginRatio : {1, 2}]
    /\ candidates \in CandidateLists
    /\ filtered = NoFilterResult

Filter ==
    /\ filtered.status = "not called"
    /\ filtered' = FilterDetectionsForPresence(candidates, minConfidence, filterSettings)
    /\ UNCHANGED <<minConfidence, filterSettings, candidates>>
    /\ UNCHANGED <<presenceVars, solverVars, trackVars, replayVars, pageVars>>

FilterNext == Filter

FilterSpec == FilterInit /\ [][FilterNext]_vars

(***************************************************************************)
(* Properties of PresenceStateMachine.                                     *)
(***************************************************************************)
Dwell == settings.dwellMsToGreet
Cooldown == settings.greetCooldownMs
IsUpdate == op = "update"
InVisitUpdate == IsUpdate /\ prev.state = "present" /\ params.stableCount > 0
NoOp == events = <<>> /\ state = prev
ElapsedMs == Max(0, params.detectedAtMs - prev.visitStartedAtMs)
SinceLastGreetMs == params.detectedAtMs - prev.lastGreetedAtMs

\* C1: at most one greet is emitted between an enter and the next exit, and
\* once hasGreetedThisVisit is set every further update with stableCount > 0
\* returns no events and leaves the state unchanged.
C1_AtMostOneGreetPerVisit ==
    /\ greetsThisVisit <= 1
    /\ (IsUpdate /\ prev.hasGreetedThisVisit /\ params.stableCount > 0) => NoOp

\* An update inside a greeted visit, made when dwell and cooldown would
\* both allow a greet: only the per-visit flag keeps it silent.
C1_Witness ==
    /\ InVisitUpdate
    /\ prev.hasGreetedThisVisit
    /\ greetsThisVisit = 1
    /\ ElapsedMs >= Dwell
    /\ SinceLastGreetMs >= Cooldown

\* C2: with non-decreasing timestamps and no reset in between, any two greet
\* events are at least greetCooldownMs apart, also across visits.
C2_GreetsCooldownApart ==
    monotonic =>
        \A i, j \in 1..Len(greetLog) :
            i < j => greetLog[j] - greetLog[i] >= Cooldown

\* Two greets of two different visits under a positive cooldown.
C2_Witness ==
    /\ monotonic
    /\ Len(greetLog) >= 2
    /\ exitCount >= 1
    /\ Cooldown > 0

\* C3 as stated: a visit that starts within the cooldown of the previous
\* visit's greet never emits a greet, emits greet-suppressed at most once,
\* and is silent after the greet-suppressed event.
C3_Original ==
    (monotonic /\ followUpVisit = "active") =>
        /\ greetsThisVisit = 0
        /\ suppressedThisVisit <= 1
        /\ (InVisitUpdate /\ prev.hasEmittedCooldownSuppressionThisVisit) => NoOp

\* C3 amended: in a visit that starts within the cooldown of the previous
\* visit's greet, every update made while still within greetCooldownMs of
\* that greet emits no greet; it emits greet-suppressed if the dwell is
\* reached and none was emitted in this visit, and is a no-op once one was
\* emitted.  A greet in such a visit comes only at or after the end of the
\* cooldown.
C3_SilentWhileInCooldown ==
    /\ ( /\ followUpVisit = "active"
         /\ InVisitUpdate
         /\ ~prev.hasGreetedThisVisit
         /\ SinceLastGreetMs < Cooldown )
       => /\ ~Has(events, "greet")
          /\ suppressedThisVisit <= 1
          /\ prev.hasEmittedCooldownSuppressionThisVisit => NoOp
          /\ (~prev.hasEmittedCooldownSuppressionThisVisit /\ ElapsedMs >= Dwell)
                => events = <<GreetSuppressedEvent(params.detectedAtMs,
                                                   params.stableCount, ElapsedMs)>>
    /\ (followUpVisit = "active" /\ IsUpdate /\ Has(events, "greet"))
       => SinceLastGreetMs >= Cooldown

\* A follow-up visit that was already told off once and is updated again
\* within the cooldown.
C3_Witness ==
    /\ followUpVisit = "active"
    /\ InVisitUpdate
    /\ prev.hasEmittedCooldownSuppressionThisVisit
    /\ SinceLastGreetMs < Cooldown
    /\ suppressedThisVisit = 1
    /\ events = <<>>

\* C4: greet-suppressed is emitted at most once per visit; once the flag
\* hasEmittedCooldownSuppressionThisVisit is set, later updates of the visit
\* do not emit it again, and only an update with stableCount <= 0 or reset
\* clears the flag.
C4_SuppressedOncePerVisit ==
    /\ suppressedThisVisit <= 1
    /\ (InVisitUpdate /\ prev.hasEmittedCooldownSuppressionThisVisit)
       => /\ ~Has(events, "greet-suppressed")
          /\ state.hasEmittedCooldownSuppressionThisVisit
    /\ (prev.hasEmittedCooldownSuppressionThisVisit
        /\ ~state.hasEmittedCooldownSuppressionThisVisit)
       => \/ op = "reset"
          \/ IsUpdate /\ params.stableCount <= 0

\* The flag is set and the visit is updated again while dwell is reached
\* and the cooldown still runs: the branch that would emit it again.
C4_Witness ==
    /\ InVisitUpdate
    /\ prev.hasEmittedCooldownSuppressionThisVisit
    /\ ~prev.hasGreetedThisVisit
    /\ ElapsedMs >= Dwell
    /\ SinceLastGreetMs < Cooldown

\* C5: while the time elapsed since visitStartedAtMs is below dwellMsToGreet
\* an update with stableCount > 0 in state present is a no-op, and every
\* greet and greet-suppressed event has visitDurationMs >= dwellMsToGreet.
C5_NothingBeforeDwell ==
    /\ (InVisitUpdate /\ ElapsedMs < Dwell) => NoOp
    /\ \A i \in 1..Len(events) :
           events[i].type \in {"greet", "greet-suppressed"}
               => events[i].visitDurationMs >= Dwell

\* A visit that has not greeted yet, updated before the dwell is over and
\* with no cooldown running.
C5_Witness ==
    /\ InVisitUpdate
    /\ ~prev.hasGreetedThisVisit
    /\ prev.lastGreetedAtMs = Null
    /\ params.detectedAtMs > prev.visitStartedAtMs
    /\ ElapsedMs < Dwell

\* The fixture of C6: dwellMsToGreet = 0 and a fresh machine fed stableCount
\* 1 at the timestamps 0, TickMs, 2 * TickMs.
C6_Fixture == Dwell = 0 /\ onesAtTicks /\ callCount \in 1..3

\* C6 as stated: the one greet is emitted by the first update call and no
\* later update emits a greet.
C6_Original ==
    C6_Fixture =>
        /\ callCount = 1 => Count(events, "greet") = 1
        /\ callCount > 1 => Count(events, "greet") = 0

\* C6 amended: the three updates emit exactly one greet, and it is emitted
\* by the second update call (the first returns only enter, the third
\* nothing).
C6_GreetAtSecondUpdate ==
    C6_Fixture =>
        /\ callCount = 1 => events = <<EnterEvent(0, 1)>> /\ greetLog = <<>>
        /\ callCount = 2 => events = <<GreetEvent(TickMs, 1, TickMs)>>
        /\ callCount = 3 => events = <<>> /\ greetLog = <<TickMs>>

\* The fixture after its third update.
C6_Witness == C6_Fixture /\ callCount = 3

\* C7: k >= 1 updates with stableCount > 0 followed by one update with
\* stableCount <= 0 on a fresh machine give exactly one enter, in the first
\* update, and exactly one exit, in the last update.
C7_OneEnterThenOneExit ==
    /\ shape \in {"ones", "onesThenZero"}
       => Count(firstEvents, "enter") = 1 /\ enterCount = 1
    /\ shape = "ones" => exitCount = 0
    /\ shape = "onesThenZero" => Count(events, "exit") = 1 /\ exitCount = 1

\* Several positive updates, with a greet among them and timestamps that
\* went backwards, closed by a non-positive one.
C7_Witness ==
    /\ shape = "onesThenZero"
    /\ callCount >= 4
    /\ greetLog # <<>>
    /\ ~monotonic

\* C8: every update returns zero or one event.
C8_AtMostOneEvent == Len(events) <= 1

\* The update that starts a visit when neither dwell nor cooldown would
\* hold back a greet: it returns enter alone.
C8_Witness ==
    /\ IsUpdate
    /\ prev.state = "noPresence"
    /\ params.stableCount > 0
    /\ Dwell = 0
    /\ prev.lastGreetedAtMs = Null
    /\ events = <<EnterEvent(params.detectedAtMs, params.stableCount)>>

\* C9: update with stableCount <= 0 in state present emits exit, moves to
\* noPresence, clears visitStartedAtMs and both per-visit flags, and keeps
\* lastGreetedAtMs.
C9_ExitClearsVisitKeepsLastGreet ==
    (IsUpdate /\ prev.state = "present" /\ params.stableCount <= 0) =>
        /\ events = <<ExitEvent(params.detectedAtMs)>>
        /\ state = [state |-> "noPresence",
                    visitStartedAtMs |-> Null,
                    hasGreetedThisVisit |-> FALSE,
                    hasEmittedCooldownSuppressionThisVisit |-> FALSE,
                    lastGreetedAtMs |-> prev.lastGreetedAtMs]

\* A greeted visit ends on a negative count.
C9_Witness ==
    /\ IsUpdate
    /\ prev.state = "present"
    /\ prev.hasGreetedThisVisit
    /\ prev.lastGreetedAtMs # Null
    /\ params.stableCount < 0

\* C10: update with stableCount <= 0 in state noPresence returns no event
\* and changes no field of the state.
C10_IdleUpdateIsNoOp ==
    (IsUpdate /\ prev.state = "noPresence" /\ params.stableCount <= 0) => NoOp

\* An idle update with a negative count after an earlier greet.
C10_Witness ==
    /\ IsUpdate
    /\ prev.state = "noPresence"
    /\ prev.lastGreetedAtMs # Null
    /\ params.stableCount < 0

(***************************************************************************)
(* Properties of solveHungarianAssignment.                                 *)
(***************************************************************************)
Solved == solved # NotSolved
IsSquare(m) == Len(m) > 0 /\ \A i \in 1..Len(m) : Len(m[i]) = Len(m)
AllFinite(m) == \A i \in 1..Len(m) : \A j \in 1..Len(m[i]) : IsFinite(m[i][j])
Permutations(n) ==
    {f \in [0..(n - 1) -> 0..(n - 1)] : \A a, b \in 0..(n - 1) : f[a] = f[b] => a = b}
RECURSIVE TotalCost(_, _, _)
TotalCost(m, f, row) ==
    IF row >= Len(m) THEN 0 ELSE m[row + 1][f[row] + 1] + TotalCost(m, f, row + 1)
MinTotalCost(m) ==
    LET totals == {TotalCost(m, f, 0) : f \in Permutations(Len(m))}
    IN  CHOOSE t \in totals : \A other \in totals : t <= other

\* C18: for a non-empty square matrix of finite costs the returned array is
\* a bijection of {0..n-1} (no -1, no column twice) whose total cost is the
\* minimum over all n! permutations.
C18_OptimalBijection ==
    (Solved /\ IsSquare(givenMatrix) /\ AllFinite(givenMatrix)) =>
        /\ solved.error = NoError
        /\ solved.assignment \in Permutations(Len(givenMatrix))
        /\ TotalCost(givenMatrix, solved.assignment, 0) = MinTotalCost(givenMatrix)

\* C19: for an empty matrix, for a matrix with a row whose length differs
\* from the number of rows, and for a matrix with a non-finite value the
\* call raises an error and returns no assignment.
C19_MalformedMatrixThrows ==
    (Solved /\ ~(IsSquare(givenMatrix) /\ AllFinite(givenMatrix))) =>
        /\ solved.error # NoError
        /\ solved.assignment = <<>>
        /\ givenMatrix = <<>>
           => solved.error = "Cost matrix must be a non-empty square matrix"
        /\ (IsSquare(givenMatrix) /\ ~AllFinite(givenMatrix))
           => solved.error = "Cost matrix must contain only finite numbers"
        /\ (givenMatrix # <<>> /\ AllFinite(givenMatrix))
           => solved.error = "Cost matrix must be square (same row length)"

\* A call with a matrix whose second row is too short.
C19_Witness ==
    /\ Solved
    /\ Len(givenMatrix) = 2
    /\ Len(givenMatrix[1]) = 2
    /\ Len(givenMatrix[2]) = 1
    /\ solved.error = "Cost matrix must be square (same row length)"

(***************************************************************************)
(* Properties of FaceTrackManager.                                         *)
(***************************************************************************)
Threshold == trackSettings.assignmentIouThreshold
MissLimit == trackSettings.trackMaxMissedFrames
Required == trackSettings.stableFramesRequired
TrackReturned == trackOp = "update" /\ trackResult.error = NoError
TrackById(trackList, id) ==
    trackList[CHOOSE i \in DOMAIN trackList : trackList[i].trackId = id]
CreatedIds == Range(trackResult.createdTrackIds)
RemovedIds == Range(trackResult.removedTrackIds)
UnmatchedBefore == {p \in Range(trackPrev) : p.trackId \notin MatchedIds(trackResult)}
IouWith(track, detectionIndex) ==
    ComputeIntersectionOverUnion(track.latestBoundingBox,
                                 givenDetections[detectionIndex + 1].boundingBox)
HandledAsMiss(p) ==
    /\ p.trackId \notin MatchedIds(trackResult)
    /\ \/ /\ p.trackId \in RemovedIds
          /\ p.trackId \notin TrackIds(tracks)
       \/ /\ p.trackId \in TrackIds(tracks)
          /\ TrackById(tracks, p.trackId).missedFrameCount = p.missedFrameCount + 1
          /\ TrackById(tracks, p.trackId).consecutiveMatchCount = 0

(***************************************************************************)
(* C11: within a session (updates without reset) every created trackId is *)
(* strictly greater than every trackId created before it, by an earlier    *)
(* call or earlier in the same call, so no id is reused, also after the    *)
(* track that held it was evicted; the live tracks hold distinct ids that  *)
(* were all created in the session.                                        *)
(***************************************************************************)
C11_TrackIdsNeverReused ==
    /\ \A i, j \in DOMAIN issuedIds : i < j => issuedIds[i] < issuedIds[j]
    /\ \A i, j \in DOMAIN tracks : i # j => tracks[i].trackId # tracks[j].trackId
    /\ TrackIds(tracks) \subseteq Range(issuedIds)
    /\ \A i \in DOMAIN issuedIds : issuedIds[i] < nextTrackId

(***************************************************************************)
(* A call creates two tracks after an earlier track was evicted.           *)
(***************************************************************************)
C11_Witness ==
    /\ TrackReturned
    /\ Len(trackResult.createdTrackIds) = 2
    /\ \E id \in Range(issuedIds) : id \notin TrackIds(tracks) /\ id \notin RemovedIds

(***************************************************************************)
(* C12: a track that an update leaves unmatched is kept when its new       *)
(* missedFrameCount equals trackMaxMissedFrames (or is below it) and is    *)
(* evicted, absent from tracks and listed in removedTrackIds, when it      *)
(* equals trackMaxMissedFrames + 1; every live track after an update has   *)
(* missedFrameCount <= trackMaxMissedFrames.                               *)
(***************************************************************************)
C12_EvictedAfterLimit ==
    /\ \A i \in DOMAIN tracks : tracks[i].missedFrameCount <= MissLimit
    /\ TrackReturned =>
         \A p \in UnmatchedBefore :
            /\ p.missedFrameCount + 1 <= MissLimit =>
                  /\ p.trackId \in TrackIds(tracks)
                  /\ p.trackId \notin RemovedIds
                  /\ TrackById(tracks, p.trackId).missedFrameCount = p.missedFrameCount + 1
            /\ p.missedFrameCount + 1 = MissLimit + 1 =>
                  /\ p.trackId \notin TrackIds(tracks)
                  /\ p.trackId \in RemovedIds

(***************************************************************************)
(* One update keeps a track at the limit and evicts another beyond it.     *)
(***************************************************************************)
C12_Witness ==
    /\ TrackReturned
    /\ MissLimit = 1
    /\ \E p \in UnmatchedBefore : p.missedFrameCount + 1 = MissLimit
    /\ \E p \in UnmatchedBefore : p.missedFrameCount + 1 = MissLimit + 1

(***************************************************************************)
(* C13: after an update a created track has consecutiveMatchCount 1 and    *)
(* missedFrameCount 0; a matched track has missedFrameCount 0 and its      *)
(* consecutiveMatchCount increased by exactly 1; an unmatched surviving    *)
(* track has consecutiveMatchCount 0 and its missedFrameCount increased by *)
(* exactly 1.                                                              *)
(***************************************************************************)
C13_CountersPerOutcome ==
    TrackReturned =>
        /\ \A id \in CreatedIds :
              /\ id \in TrackIds(tracks)
              /\ TrackById(tracks, id).consecutiveMatchCount = 1
              /\ TrackById(tracks, id).missedFrameCount = 0
        /\ \A p \in Range(trackPrev) :
              /\ p.trackId \in MatchedIds(trackResult) =>
                    /\ p.trackId \in TrackIds(tracks)
                    /\ TrackById(tracks, p.trackId).missedFrameCount = 0
                    /\ TrackById(tracks, p.trackId).consecutiveMatchCount =
                           p.consecutiveMatchCount + 1
              /\ (p.trackId \notin MatchedIds(trackResult)
                    /\ p.trackId \in TrackIds(tracks)) =>
                    /\ TrackById(tracks, p.trackId).consecutiveMatchCount = 0
                    /\ TrackById(tracks, p.trackId).missedFrameCount =
                           p.missedFrameCount + 1

(***************************************************************************)
(* One update creates a track, matches a track that had matched before and *)
(* misses a surviving track that had matched before.                       *)
(***************************************************************************)
C13_Witness ==
    /\ TrackReturned
    /\ CreatedIds # {}
    /\ \E p \in Range(trackPrev) :
          p.trackId \in MatchedIds(trackResult) /\ p.consecutiveMatchCount >= 1
    /\ \E p \in UnmatchedBefore :
          p.trackId \in TrackIds(tracks) /\ p.consecutiveMatchCount >= 1

(***************************************************************************)
(* The number of frames, up to the last one, in a row in which the track   *)
(* was created or matched, counted from the log of the calls' results.     *)
(***************************************************************************)
MatchedFramesInARow(id) ==
    IF trackLog[id].lastMissFrame = 0
    THEN frame - trackLog[id].createdAtFrame + 1
    ELSE frame - trackLog[id].lastMissFrame

FirstStableFrame(id) == trackLog[id].createdAtFrame + Required - 1

(***************************************************************************)
(* C14: stableTracks is exactly the returned tracks, in their order, that  *)
(* have consecutiveMatchCount >= stableFramesRequired; a track created in  *)
(* frame f and matched in every frame since is in stableTracks exactly     *)
(* from frame f + stableFramesRequired - 1 on, and a track that missed a   *)
(* frame is in stableTracks again exactly when stableFramesRequired        *)
(* matched frames have followed the miss.                                  *)
(***************************************************************************)
C14_StableAfterRequiredFrames ==
    TrackReturned =>
        LET AtLeastRequired(t) == t.consecutiveMatchCount >= Required
            stableIds == TrackIds(trackResult.stableTracks)
        IN  /\ trackResult.tracks = tracks
            /\ trackResult.stableTracks = SelectSeq(tracks, AtLeastRequired)
            /\ \A id \in TrackIds(tracks) :
                  /\ id \in stableIds <=> MatchedFramesInARow(id) >= Required
                  /\ trackLog[id].lastMissFrame = 0 =>
                        (id \in stableIds <=> frame >= FirstStableFrame(id))

(***************************************************************************)
(* With stableFramesRequired 2 a track is stable again in the second       *)
(* matched frame after a miss.                                             *)
(***************************************************************************)
C14_Witness ==
    /\ TrackReturned
    /\ Required = 2
    /\ \E id \in TrackIds(trackResult.stableTracks) :
          /\ trackLog[id].lastMissFrame > trackLog[id].createdAtFrame
          /\ frame = trackLog[id].lastMissFrame + 2

(***************************************************************************)
(* C15: every entry of assignments carries the IoU of the track's box      *)
(* before the update and the detection's box, and that IoU is at or above  *)
(* assignmentIouThreshold; a track whose column from the solver is a       *)
(* padding column, or a detection with an IoU below the threshold, is      *)
(* handled as a miss, and is in assignments with the solver's column       *)
(* otherwise.                                                              *)
(***************************************************************************)
C15_MatchOnlyAtOrAboveThreshold ==
    TrackReturned =>
        /\ \A i \in DOMAIN trackResult.assignments :
              LET a == trackResult.assignments[i]
              IN  /\ a.trackId \in TrackIds(trackPrev)
                  /\ a.detectionIndex \in 0..(Len(givenDetections) - 1)
                  /\ a.iou = IouWith(TrackById(trackPrev, a.trackId), a.detectionIndex)
                  /\ a.iou >= Threshold
                  /\ a.cost = CostScale - a.iou
        /\ \A rowIndex \in 0..(Len(trackPrev) - 1) :
              LET p == trackPrev[rowIndex + 1]
                  columnIndex == trackResult.assignmentByRow[rowIndex]
              IN  IF columnIndex >= Len(givenDetections)
                  THEN HandledAsMiss(p)
                  ELSE IF IouWith(p, columnIndex) < Threshold
                  THEN HandledAsMiss(p)
                  ELSE \E i \in DOMAIN trackResult.assignments :
                          /\ trackResult.assignments[i].trackId = p.trackId
                          /\ trackResult.assignments[i].detectionIndex = columnIndex

(***************************************************************************)
(* The solver gave one track a detection below the threshold and another   *)
(* track a padding column.                                                 *)
(***************************************************************************)
C15_Witness ==
    /\ TrackReturned
    /\ \E rowIndex \in 0..(Len(trackPrev) - 1) :
          /\ trackResult.assignmentByRow[rowIndex] < Len(givenDetections)
          /\ IouWith(trackPrev[rowIndex + 1], trackResult.assignmentByRow[rowIndex])
                 < Threshold
    /\ \E rowIndex \in 0..(Len(trackPrev) - 1) :
          trackResult.assignmentByRow[rowIndex] >= Len(givenDetections)

(***************************************************************************)
(* The tracks that the frame before the last one matched or created, and   *)
(* the case of C16: the last frame's detections are exactly their boxes.   *)
(***************************************************************************)
HeldTracks == {p \in Range(trackPrev) : p.trackId \in prevFresh}

SameBoxesAgain ==
    /\ trackOp = "update"
    /\ HeldTracks # {}
    /\ Len(givenDetections) = Cardinality(HeldTracks)
    /\ {givenDetections[i].boundingBox : i \in DOMAIN givenDetections}
           = {p.latestBoundingBox : p \in HeldTracks}

(***************************************************************************)
(* C16: if the detections of a frame are exactly the boxes that the frame  *)
(* before matched or created, the update keeps each of those trackIds on   *)
(* its box (the track is matched to the detection with its own box),       *)
(* creates no track and removes none of those tracks.                      *)
(***************************************************************************)
C16_SameBoxesKeepTrackIds ==
    SameBoxesAgain =>
        /\ trackResult.error = NoError
        /\ trackResult.createdTrackIds = <<>>
        /\ \A p \in HeldTracks :
              /\ p.trackId \notin RemovedIds
              /\ p.trackId \in TrackIds(tracks)
              /\ TrackById(tracks, p.trackId).latestBoundingBox = p.latestBoundingBox
              /\ \E i \in DOMAIN trackResult.assignments :
                    /\ trackResult.assignments[i].trackId = p.trackId
                    /\ trackResult.assignments[i].iou = CostScale

(***************************************************************************)
(* Two overlapping held boxes come again, in the other order, while a      *)
(* third track that overlaps one of them is missing.                       *)
(***************************************************************************)
C16_Witness ==
    /\ SameBoxesAgain
    /\ Cardinality(HeldTracks) = 2
    /\ \E p, q \in HeldTracks :
          /\ p.trackId < q.trackId
          /\ ComputeIntersectionOverUnion(p.latestBoundingBox, q.latestBoundingBox) > 0
          /\ givenDetections[1].boundingBox = q.latestBoundingBox
    /\ \E p \in Range(trackPrev) \ HeldTracks :
          \E q \in HeldTracks :
             ComputeIntersectionOverUnion(p.latestBoundingBox, q.latestBoundingBox)
                 >= Threshold

(***************************************************************************)
(* C17: three faces that do not overlap, held for HoldFrames (10) frames   *)
(* with stableFramesRequired = 4: exactly three tracks are created, all in *)
(* frame 1, and none is removed; no track is stable before frame 4 and all *)
(* three are stable from frame 4 on; enter is emitted exactly once, in     *)
(* frame 4, the first frame whose stableTracks has length 3.               *)
(***************************************************************************)
C17_ThreeHeldFacesEnterAtFrameFour ==
    frame >= 1 =>
        /\ trackResult.error = NoError
        /\ issuedIds = <<1, 2, 3>>
        /\ trackResult.createdTrackIds = (IF frame = 1 THEN <<1, 2, 3>> ELSE <<>>)
        /\ trackResult.removedTrackIds = <<>>
        /\ TrackIds(tracks) = {1, 2, 3}
        /\ Len(tracks) = 3
        /\ Len(trackResult.stableTracks) = (IF frame >= 4 THEN 3 ELSE 0)
        /\ callCount = frame
        /\ params.stableCount = Len(trackResult.stableTracks)
        /\ Has(events, "enter") <=> frame = 4
        /\ enterCount = (IF frame >= 4 THEN 1 ELSE 0)
        /\ exitCount = 0

(***************************************************************************)
(* The tenth frame of the three held faces.                                *)
(***************************************************************************)
C17_Witness ==
    /\ frame = 10
    /\ Required = 4
    /\ Len(givenDetections) = 3
    /\ enterCount = 1
    /\ Len(trackResult.stableTracks) = 3

(***************************************************************************)
(* C20 as claimed: an instance with malformed settings has been rejected   *)
(* at construction and never runs update.                                  *)
(***************************************************************************)
C20_Original ==
    /\ ~WellFormedTrackSettings(trackSettings) => trackOp = "rejected"
    /\ ~WellFormedPresenceSettings(settings) => op = "rejected"

(***************************************************************************)
(* C20: neither constructor validates its settings.  Construction never    *)
(* fails, the instance holds the settings as given, malformed or not, and  *)
(* the callback's updates run with them; nothing in the two classes        *)
(* rejects a malformed configuration.                                      *)
(***************************************************************************)
C20_ConstructorsAcceptAnySettings ==
    /\ trackOp \in {"new", "update"}
    /\ op \in {"new", "update"}
    /\ trackSettings \in TrackConfigs
    /\ settings \in PresenceConfigs
    /\ frame >= 1 => trackOp = "update"
    /\ (frame >= 1 /\ trackResult.error = NoError) => op = "update"

(***************************************************************************)
(* Both classes have run update with malformed settings.                   *)
(***************************************************************************)
C20_Witness ==
    /\ trackOp = "update"
    /\ op = "update"
    /\ trackResult.error = NoError
    /\ ~WellFormedTrackSettings(trackSettings)
    /\ ~WellFormedPresenceSettings(settings)
    /\ trackSettings.assignmentIouThreshold = PosInfinity
    /\ settings.dwellMsToGreet < 0


(***************************************************************************)
(* Properties of one call of FaceTrackManager.update, continued.           *)
(***************************************************************************)
AssignedIndices ==
    {trackResult.assignments[i].detectionIndex : i \in DOMAIN trackResult.assignments}
CallTimestamp == frame * TickMs
AssignmentOf(id) ==
    trackResult.assignments[CHOOSE i \in DOMAIN trackResult.assignments :
                                trackResult.assignments[i].trackId = id]

(***************************************************************************)
(* C23: update loses no detection and no track: every detection index is   *)
(* in exactly one assignment or gave rise to exactly one created track,    *)
(* with |assignments| + |createdTrackIds| = |detections|, and every track  *)
(* live before the call is either in the returned tracks or in             *)
(* removedTrackIds, never both and never neither.                          *)
(***************************************************************************)
C23_NothingLostSilently ==
    TrackReturned =>
        /\ Len(trackResult.assignments) + Len(trackResult.createdTrackIds)
               = Len(givenDetections)
        /\ \A i, j \in DOMAIN trackResult.assignments :
              i # j => /\ trackResult.assignments[i].detectionIndex
                              # trackResult.assignments[j].detectionIndex
                       /\ trackResult.assignments[i].trackId
                              # trackResult.assignments[j].trackId
        /\ AssignedIndices \subseteq 0..(Len(givenDetections) - 1)
        /\ MatchedIds(trackResult) \subseteq TrackIds(trackPrev)
        /\ \A i, j \in DOMAIN trackResult.createdTrackIds :
              i # j => trackResult.createdTrackIds[i] # trackResult.createdTrackIds[j]
        /\ CreatedIds \cap TrackIds(trackPrev) = {}
        /\ CreatedIds \subseteq TrackIds(tracks)
        /\ \A d \in 0..(Len(givenDetections) - 1) :
              d \notin AssignedIndices =>
                 Cardinality({id \in CreatedIds :
                     /\ TrackById(tracks, id).latestBoundingBox
                            = givenDetections[d + 1].boundingBox
                     /\ TrackById(tracks, id).latestConfidence
                            = givenDetections[d + 1].confidence}) = 1
        /\ \A p \in Range(trackPrev) :
              (p.trackId \in TrackIds(trackResult.tracks)) # (p.trackId \in RemovedIds)
        /\ trackResult.tracks = tracks
        /\ Len(tracks) = Cardinality(TrackIds(tracks))
        /\ TrackIds(tracks) \subseteq TrackIds(trackPrev) \cup CreatedIds
        /\ RemovedIds \subseteq TrackIds(trackPrev)

(***************************************************************************)
(* One call matches a track, keeps an unmatched track, evicts a track and  *)
(* creates a track at the same time.                                       *)
(***************************************************************************)
C23_Witness ==
    /\ TrackReturned
    /\ Len(trackResult.assignments) >= 1
    /\ Len(trackResult.createdTrackIds) >= 1
    /\ Len(trackResult.removedTrackIds) >= 1
    /\ Len(givenDetections) = 2
    /\ Len(trackPrev) >= 2

(***************************************************************************)
(* C30: update leaves unchanged what it does not refresh: an unmatched     *)
(* surviving track keeps trackId, latestBoundingBox, latestConfidence,     *)
(* firstMatchedAtMs and lastMatchedAtMs; a matched track keeps trackId and *)
(* firstMatchedAtMs and takes box, confidence and lastMatchedAtMs from the *)
(* matched detection and the timestamp of the call.                        *)
(***************************************************************************)
C30_UnrefreshedFieldsKept ==
    TrackReturned =>
        \A p \in Range(trackPrev) :
            p.trackId \in TrackIds(tracks) =>
                LET q == TrackById(tracks, p.trackId)
                IN  /\ q.firstMatchedAtMs = p.firstMatchedAtMs
                    /\ IF p.trackId \in MatchedIds(trackResult)
                       THEN LET d == givenDetections[
                                         AssignmentOf(p.trackId).detectionIndex + 1]
                            IN  /\ q.latestBoundingBox = d.boundingBox
                                /\ q.latestConfidence = d.confidence
                                /\ q.lastMatchedAtMs = CallTimestamp
                       ELSE /\ q.latestBoundingBox = p.latestBoundingBox
                            /\ q.latestConfidence = p.latestConfidence
                            /\ q.lastMatchedAtMs = p.lastMatchedAtMs

(***************************************************************************)
(* A track matched to a detection at another box and with another          *)
(* confidence, next to a track that was missed and survives.               *)
(***************************************************************************)
C30_Witness ==
    /\ TrackReturned
    /\ \E p \in Range(trackPrev) :
          /\ p.trackId \in MatchedIds(trackResult)
          /\ p.trackId \in TrackIds(tracks)
          /\ TrackById(tracks, p.trackId).latestBoundingBox # p.latestBoundingBox
          /\ TrackById(tracks, p.trackId).latestConfidence # p.latestConfidence
          /\ p.lastMatchedAtMs < CallTimestamp
          /\ p.firstMatchedAtMs < p.lastMatchedAtMs
    /\ \E p \in Range(trackPrev) :
          /\ p.trackId \notin MatchedIds(trackResult)
          /\ p.trackId \in TrackIds(tracks)


(***************************************************************************)
(* C27: update returns a result without raising an error for every list of *)
(* detections with finite boxes; called with no detection while no track   *)
(* is live it returns empty tracks, stableTracks, assignments,             *)
(* createdTrackIds and removedTrackIds.  The code does not do this: with   *)
(* no track and no detection the cost matrix is empty and                  *)
(* solveHungarianAssignment throws.                                        *)
(***************************************************************************)
C27_UpdateAlwaysReturns ==
    trackOp = "update" =>
        /\ trackResult.error = NoError
        /\ (trackPrev = <<>> /\ givenDetections = <<>>) =>
              /\ trackResult.tracks = <<>>
              /\ trackResult.stableTracks = <<>>
              /\ trackResult.assignments = <<>>
              /\ trackResult.createdTrackIds = <<>>
              /\ trackResult.removedTrackIds = <<>>


(***************************************************************************)
(* C25: for every assignmentIouThreshold and every number of tracks and    *)
(* detections, no accepted assignment has a cost above the unassigned cost *)
(* (1 - IoU > 0.99): such a pair is left unmatched.  The code does not do  *)
(* this: in the padded square matrix the number of padding cells in an     *)
(* assignment is fixed, so with a threshold of 0 a track and a detection   *)
(* that do not overlap are paired at cost 1.                               *)
(***************************************************************************)
C25_NoPairingWorseThanUnassigned ==
    TrackReturned =>
        \A i \in DOMAIN trackResult.assignments :
            trackResult.assignments[i].cost <= UNASSIGNED_COST


(***************************************************************************)
(* The pairs (track row, detection column) that may be matched, and the    *)
(* matchings over them: no track and no detection in two pairs.            *)
(***************************************************************************)
ValidPairs ==
    {pair \in (1..Len(trackPrev)) \X (1..Len(givenDetections)) :
        IouWith(trackPrev[pair[1]], pair[2] - 1) >= Threshold}
Matchings ==
    {m \in SUBSET ValidPairs :
        \A p, q \in m : p # q => (p[1] # q[1] /\ p[2] # q[2])}
RECURSIVE MatchingCost(_)
MatchingCost(m) ==
    IF m = {} THEN 0
    ELSE LET pair == CHOOSE p \in m : TRUE
         IN  PairCost(IouWith(trackPrev[pair[1]], pair[2] - 1))
                 + MatchingCost(m \ {pair})
RowOf(id) == CHOOSE t \in DOMAIN trackPrev : trackPrev[t].trackId = id
Accepted ==
    {<<RowOf(trackResult.assignments[i].trackId),
       trackResult.assignments[i].detectionIndex + 1>> :
        i \in DOMAIN trackResult.assignments}

(***************************************************************************)
(* C29: in every update the accepted matches form a maximum-cardinality    *)
(* matching of the pairs (track, detection) with IoU at or above the       *)
(* threshold and, among those, one of minimum total cost 1 - IoU, whether  *)
(* tracks outnumber detections, detections outnumber tracks, or the counts *)
(* are equal.                                                              *)
(***************************************************************************)
C29_MaximumMatchingOfMinimumCost ==
    TrackReturned =>
        /\ Accepted \in Matchings
        /\ Cardinality(Accepted) = Len(trackResult.assignments)
        /\ \A m \in Matchings :
              /\ Cardinality(m) <= Cardinality(Accepted)
              /\ Cardinality(m) = Cardinality(Accepted)
                    => MatchingCost(Accepted) <= MatchingCost(m)

(***************************************************************************)
(* Equal counts, no padding, one pair below the threshold: matching both   *)
(* tracks costs more than the cheapest single pair, and both are matched.  *)
(***************************************************************************)
C29_Witness ==
    /\ TrackReturned
    /\ Len(trackPrev) = 2
    /\ Len(givenDetections) = 2
    /\ Cardinality(ValidPairs) = 3
    /\ Cardinality(Accepted) = 2
    /\ \E pair \in ValidPairs \ Accepted :
          \A chosen \in Accepted :
             PairCost(IouWith(trackPrev[pair[1]], pair[2] - 1))
                 < PairCost(IouWith(trackPrev[chosen[1]], chosen[2] - 1))
(***************************************************************************)
(* The padded cases: with more tracks than detections, or more detections  *)
(* than tracks, the one accepted pair is the cheaper of two valid ones.    *)
(***************************************************************************)
C29_MoreTracks ==
    /\ TrackReturned
    /\ Len(trackPrev) > Len(givenDetections)
    /\ Cardinality(ValidPairs) >= 2
    /\ Cardinality(Accepted) = 1
    /\ \E m \in Matchings : Cardinality(m) = 1 /\ MatchingCost(m) > MatchingCost(Accepted)
C29_MoreDetections ==
    /\ TrackReturned
    /\ Len(trackPrev) < Len(givenDetections)
    /\ Cardinality(ValidPairs) >= 2
    /\ Cardinality(Accepted) = 1
    /\ \E m \in Matchings : Cardinality(m) = 1 /\ MatchingCost(m) > MatchingCost(Accepted)


(***************************************************************************)
(* Properties of the event sequence of PresenceStateMachine.               *)
(***************************************************************************)
OpenVisits == enterCount - exitCount

(***************************************************************************)
(* C28: over any sequence of update calls enter and exit strictly          *)
(* alternate starting with enter: an update emits at most one of them, an  *)
(* enter only while no visit is open and an exit only while one is; every  *)
(* greet or greet-suppressed is emitted while a visit is open, by an       *)
(* update later than the one that emitted its enter and carrying neither   *)
(* enter nor exit.                                                         *)
(***************************************************************************)
C28_EnterExitAlternate ==
    /\ OpenVisits = (IF state.state = "present" THEN 1 ELSE 0)
    /\ IsUpdate =>
          /\ Count(events, "enter") + Count(events, "exit") <= 1
          /\ Has(events, "enter") => (prev.state = "noPresence" /\ OpenVisits = 1)
          /\ Has(events, "exit") => (prev.state = "present" /\ OpenVisits = 0)
          /\ (Has(events, "greet") \/ Has(events, "greet-suppressed")) =>
                /\ prev.state = "present"
                /\ OpenVisits = 1
                /\ ~Has(events, "enter")
                /\ ~Has(events, "exit")

(***************************************************************************)
(* The second visit of a session: its greet is suppressed, after a first   *)
(* visit that greeted and was closed by an exit.                           *)
(***************************************************************************)
C28_Witness ==
    /\ IsUpdate
    /\ enterCount = 2
    /\ exitCount = 1
    /\ Has(events, "greet-suppressed")
    /\ Len(greetLog) = 1


(***************************************************************************)
(* A newly constructed instance fed the recorded inputs, from input k on:  *)
(* what its last call returns and the state it then holds.                 *)
(***************************************************************************)
RECURSIVE ReplayTrackFrom(_, _, _, _)
ReplayTrackFrom(cfg, inputs, k, last) ==
    IF k > Len(inputs) THEN last
    ELSE ReplayTrackFrom(cfg, inputs, k + 1,
             TrackUpdate(last.tracks, last.nextTrackId, cfg,
                         inputs[k].detections, inputs[k].detectedAtMs))
NewTrackerFed(cfg, inputs) == ReplayTrackFrom(cfg, inputs, 1, NoTrackResult)
RECURSIVE ReplayPresenceFrom(_, _, _, _)
ReplayPresenceFrom(cfg, inputs, k, last) ==
    IF k > Len(inputs) THEN last
    ELSE ReplayPresenceFrom(cfg, inputs, k + 1,
             UpdateResult(last.state, cfg, inputs[k].stableCount,
                          inputs[k].detectedAtMs))
NewPresenceFed(cfg, inputs) ==
    ReplayPresenceFrom(cfg, inputs, 1, Result(INITIAL_STATE, <<>>))
TrackerAsNew ==
    /\ trackResult = NewTrackerFed(trackSettings, trackReplay.inputs)
    /\ tracks = trackResult.tracks
    /\ nextTrackId = trackResult.nextTrackId
PresenceAsNew ==
    Result(state, events) = NewPresenceFed(settings, presenceReplay.inputs)

C26_ResetIsAsNew ==
    /\ trackOp = "reset" => (tracks = <<>> /\ nextTrackId = 1)
    /\ op = "reset" => (state = INITIAL_STATE /\ state.lastGreetedAtMs = Null)
    /\ trackReplay.phase # "constructed" => TrackerAsNew
    /\ presenceReplay.phase # "constructed" => PresenceAsNew

(***************************************************************************)
(* Both instances were reset after use, the state machine after a greet;   *)
(* the tracker has since issued id 1 again and the state machine greets    *)
(* again although the cooldown is set.                                     *)
(***************************************************************************)
C26_Witness ==
    /\ trackReplay.phase = "reset after calls"
    /\ presenceReplay.phase = "reset after greet"
    /\ Len(trackReplay.inputs) >= 2
    /\ tracks # <<>>
    /\ nextTrackId = 2
    /\ Cooldown > 0
    /\ Has(events, "greet")


(***************************************************************************)
(* Properties of filterDetectionsForPresence: the three checks, written on *)
(* the fields of a detection.                                              *)
(***************************************************************************)
Margin == filterSettings.interactionZoneMarginRatio
FailsConfidence(d) == d.confidence < minConfidence
FailsArea(d) ==
    d.boundingBox.width * d.boundingBox.height < filterSettings.minFaceAreaRatio
CenterX2(d) == 2 * d.boundingBox.xMin + d.boundingBox.width
CenterY2(d) == 2 * d.boundingBox.yMin + d.boundingBox.height
FailsZone(d) ==
    \/ CenterX2(d) < 2 * Margin
    \/ CenterX2(d) > 2 * (GridUnit - Margin)
    \/ CenterY2(d) < 2 * Margin
    \/ CenterY2(d) > 2 * (GridUnit - Margin)
Passes(d) == ~FailsConfidence(d) /\ ~FailsArea(d) /\ ~FailsZone(d)
Fails(d) == ~Passes(d)
FailedChecks(d) ==
    {reason \in {"belowMinConfidence", "belowMinFaceAreaRatio", "outsideInteractionZone"} :
        \/ reason = "belowMinConfidence" /\ FailsConfidence(d)
        \/ reason = "belowMinFaceAreaRatio" /\ FailsArea(d)
        \/ reason = "outsideInteractionZone" /\ FailsZone(d)}
Rejected == filtered.rejectedDetections
RejectedOnes == [i \in DOMAIN Rejected |-> Rejected[i].detection]

(***************************************************************************)
(* C21: filterDetectionsForPresence puts every input detection in exactly  *)
(* one of acceptedDetections and rejectedDetections, in input order; a     *)
(* detection is accepted iff none of the three checks fails, and a         *)
(* rejected detection carries exactly the reasons of the checks it fails,  *)
(* each evaluated independently of the others.                             *)
(***************************************************************************)
C21_FilterPartitionsInOrder ==
    filtered.status = "returned" =>
    /\ filtered.acceptedDetections = SelectSeq(candidates, Passes)
    /\ RejectedOnes = SelectSeq(candidates, Fails)
    /\ Len(filtered.acceptedDetections) + Len(Rejected) = Len(candidates)
    /\ \A i \in DOMAIN Rejected :
          /\ Range(Rejected[i].rejectionReasons) = FailedChecks(Rejected[i].detection)
          /\ Len(Rejected[i].rejectionReasons)
                = Cardinality(FailedChecks(Rejected[i].detection))
          /\ Rejected[i].rejectionReasons # <<>>

(***************************************************************************)
(* A detection that fails all three checks comes before one that passes.   *)
(***************************************************************************)
C21_Witness ==
    /\ filtered.status = "returned"
    /\ Len(candidates) = 2
    /\ Len(filtered.acceptedDetections) = 1
    /\ Len(Rejected) = 1
    /\ Len(Rejected[1].rejectionReasons) = 3
    /\ Rejected[1].detection = candidates[1]

(***************************************************************************)
(* The boundary values of each check.                                      *)
(***************************************************************************)
AtMinConfidence(d) == d.confidence = minConfidence
AtMinArea(d) ==
    d.boundingBox.width * d.boundingBox.height = filterSettings.minFaceAreaRatio
OnZoneEdge(d) ==
    /\ CenterX2(d) \in {2 * Margin, 2 * (GridUnit - Margin)}
    /\ CenterY2(d) \in {2 * Margin, 2 * (GridUnit - Margin)}
ReasonsOf(d) ==
    UNION {Range(Rejected[i].rejectionReasons) :
              i \in {j \in DOMAIN Rejected : Rejected[j].detection = d}}

(***************************************************************************)
(* C22: the filter comparisons are inclusive at the boundary: a detection  *)
(* with confidence equal to minConfidence, with width x height equal to    *)
(* minFaceAreaRatio, or with its box center exactly at margin or at        *)
(* 1 - margin on either axis gets no rejection reason from that check and  *)
(* is accepted when the other checks pass.                                 *)
(***************************************************************************)
C22_BoundaryIsInclusive ==
    filtered.status = "returned" =>
    \A d \in Range(candidates) :
        /\ AtMinConfidence(d) =>
              /\ "belowMinConfidence" \notin ReasonsOf(d)
              /\ (~FailsArea(d) /\ ~FailsZone(d)) => d \in Range(filtered.acceptedDetections)
        /\ AtMinArea(d) =>
              /\ "belowMinFaceAreaRatio" \notin ReasonsOf(d)
              /\ (~FailsConfidence(d) /\ ~FailsZone(d))
                    => d \in Range(filtered.acceptedDetections)
        /\ \A edge \in {2 * Margin, 2 * (GridUnit - Margin)} :
              /\ (CenterX2(d) = edge
                     /\ CenterY2(d) >= 2 * Margin /\ CenterY2(d) <= 2 * (GridUnit - Margin))
                    => /\ "outsideInteractionZone" \notin ReasonsOf(d)
                       /\ (~FailsConfidence(d) /\ ~FailsArea(d))
                             => d \in Range(filtered.acceptedDetections)
              /\ (CenterY2(d) = edge
                     /\ CenterX2(d) >= 2 * Margin /\ CenterX2(d) <= 2 * (GridUnit - Margin))
                    => /\ "outsideInteractionZone" \notin ReasonsOf(d)
                       /\ (~FailsConfidence(d) /\ ~FailsArea(d))
                             => d \in Range(filtered.acceptedDetections)

(***************************************************************************)
(* Two accepted detections, each on all three boundaries at once: the      *)
(* first with its center at (margin, 1 - margin), the second at            *)
(* (1 - margin, margin), with a margin and thresholds above 0.             *)
(***************************************************************************)
C22_Witness ==
    /\ filtered.status = "returned"
    /\ Margin > 0
    /\ minConfidence > 0
    /\ Len(candidates) = 2
    /\ filtered.acceptedDetections = candidates
    /\ \A i \in 1..2 : AtMinConfidence(candidates[i]) /\ AtMinArea(candidates[i])
    /\ CenterX2(candidates[1]) = 2 * Margin
    /\ CenterY2(candidates[1]) = 2 * (GridUnit - Margin)
    /\ CenterX2(candidates[2]) = 2 * (GridUnit - Margin)
    /\ CenterY2(candidates[2]) = 2 * Margin


(***************************************************************************)
(* The tracks that the latest call refreshed or created.                   *)
(***************************************************************************)
TouchedTracks ==
    {i \in DOMAIN tracks :
        tracks[i].missedFrameCount = 0 /\ tracks[i].lastMatchedAtMs = CallTimestamp}

(***************************************************************************)
(* C31: in every update the accepted assignments are one-to-one: no        *)
(* detectionIndex and no trackId occurs in two entries of assignments, so  *)
(* two tracks are never refreshed from the same detection and a matched    *)
(* detection never also creates a new track.                               *)
(***************************************************************************)
C31_AssignmentsOneToOne ==
    TrackReturned =>
        /\ Cardinality(AssignedIndices) = Len(trackResult.assignments)
        /\ Cardinality(MatchedIds(trackResult)) = Len(trackResult.assignments)
        /\ \A p, q \in Range(trackPrev) :
              (/\ p.trackId # q.trackId
               /\ p.trackId \in MatchedIds(trackResult)
               /\ q.trackId \in MatchedIds(trackResult))
                  => TrackById(tracks, p.trackId).latestBoundingBox
                         # TrackById(tracks, q.trackId).latestBoundingBox
        /\ \A d \in AssignedIndices, id \in CreatedIds :
              TrackById(tracks, id).latestBoundingBox # givenDetections[d + 1].boundingBox
        /\ Cardinality(TouchedTracks) = Len(givenDetections)

(***************************************************************************)
(* Two tracks that both overlap the first detection enough to take it, and *)
(* two detections: each track gets its own detection.                      *)
(***************************************************************************)
C31_Witness ==
    /\ TrackReturned
    /\ Len(givenDetections) = 2
    /\ Len(trackResult.assignments) = 2
    /\ Cardinality({p \in Range(trackPrev) : IouWith(p, 0) >= Threshold /\ Threshold > 0}) >= 2


(***************************************************************************)
(* C33: every live track has either missedFrameCount = 0 and               *)
(* consecutiveMatchCount >= 1 (matched or created in the latest frame) or  *)
(* missedFrameCount >= 1 and consecutiveMatchCount = 0 (missed in the      *)
(* latest frame): the two counters are never both positive and never both  *)
(* zero.                                                                   *)
(***************************************************************************)
C33_CountersExcludeEachOther ==
    \A i \in DOMAIN tracks :
        /\ tracks[i].missedFrameCount >= 0
        /\ tracks[i].consecutiveMatchCount >= 0
        /\ (tracks[i].missedFrameCount = 0) = (tracks[i].consecutiveMatchCount >= 1)
        /\ (tracks[i].missedFrameCount >= 1) = (tracks[i].consecutiveMatchCount = 0)
        /\ TrackReturned =>
              (tracks[i].missedFrameCount = 0) = (i \in TouchedTracks)

(***************************************************************************)
(* A track matched again after a miss, next to a track that is missed and  *)
(* a track that was matched twice in a row.                                *)
(***************************************************************************)
C33_Witness ==
    /\ TrackReturned
    /\ \E p \in Range(trackPrev) :
          /\ p.missedFrameCount >= 1
          /\ p.trackId \in MatchedIds(trackResult)
          /\ TrackById(tracks, p.trackId).consecutiveMatchCount = 1
    /\ \E i \in DOMAIN tracks : tracks[i].missedFrameCount >= 1
    /\ \E i \in DOMAIN tracks : tracks[i].consecutiveMatchCount >= 2

(***************************************************************************)
(* C34: with stableFramesRequired >= 1 every track in stableTracks was     *)
(* matched to a detection in the current update, so stableTracks is never  *)
(* longer than the detection list of that update and is empty when the     *)
(* detection list is empty.                                                *)
(***************************************************************************)
C34_StableTracksWereMatchedNow ==
    (TrackReturned /\ Required >= 1) =>
        /\ \A i \in DOMAIN trackResult.stableTracks :
              /\ trackResult.stableTracks[i].missedFrameCount = 0
              /\ trackResult.stableTracks[i].lastMatchedAtMs = CallTimestamp
              /\ \E d \in DOMAIN givenDetections :
                    /\ givenDetections[d].boundingBox
                          = trackResult.stableTracks[i].latestBoundingBox
                    /\ givenDetections[d].confidence
                          = trackResult.stableTracks[i].latestConfidence
              /\ trackResult.stableTracks[i].trackId
                    \in MatchedIds(trackResult) \cup CreatedIds
        /\ Len(trackResult.stableTracks) <= Len(givenDetections)
        /\ givenDetections = <<>> => trackResult.stableTracks = <<>>

(***************************************************************************)
(* A stable track is missed and survives: the update with no detection     *)
(* returns it in tracks and not in stableTracks.                           *)
(***************************************************************************)
C34_Witness ==
    /\ TrackReturned
    /\ givenDetections = <<>>
    /\ trackResult.stableTracks = <<>>
    /\ tracks # <<>>
    /\ \E p \in Range(trackPrev) :
          /\ p.consecutiveMatchCount >= Required
          /\ p.trackId \in TrackIds(tracks)

(***************************************************************************)
(* The rank of a track among the tracks that were live before the call,    *)
(* by trackId, and the detection a created track came from.                *)
(***************************************************************************)
RankOf(p) == 1 + Cardinality({q \in Range(trackPrev) : q.trackId < p.trackId})
SourceOf(id) ==
    CHOOSE d \in DOMAIN givenDetections :
        givenDetections[d].boundingBox = TrackById(tracks, id).latestBoundingBox

(***************************************************************************)
(* C36: the live track list holds pairwise distinct trackIds in strictly   *)
(* ascending order: surviving tracks keep their relative order and new     *)
(* tracks are appended in detection-index order, so the cost-matrix row of *)
(* a track is its rank by trackId.                                         *)
(***************************************************************************)
C36_TracksAscendingById ==
    /\ \A i, j \in DOMAIN tracks : i < j => tracks[i].trackId < tracks[j].trackId
    /\ TrackReturned =>
          /\ \A i, j \in DOMAIN tracks :
                (i < j /\ tracks[j].trackId \in TrackIds(trackPrev))
                    => tracks[i].trackId \in TrackIds(trackPrev)
          /\ \A i, j \in DOMAIN tracks :
                (/\ i < j
                 /\ tracks[i].trackId \in CreatedIds
                 /\ tracks[j].trackId \in CreatedIds)
                    => SourceOf(tracks[i].trackId) < SourceOf(tracks[j].trackId)
          /\ \A r \in DOMAIN trackPrev :
                /\ RankOf(trackPrev[r]) = r
                /\ \A c \in DOMAIN givenDetections :
                      trackResult.costMatrix[r][c]
                          = IF IouWith(trackPrev[r], c - 1) < Threshold
                            THEN UNMATCHABLE_COST
                            ELSE CostScale - IouWith(trackPrev[r], c - 1)

(***************************************************************************)
(* The first of the tracks was evicted; a survivor is now in row 1 and a   *)
(* new track follows the survivors.                                        *)
(***************************************************************************)
C36_Witness ==
    /\ TrackReturned
    /\ Len(trackPrev) >= 2
    /\ trackPrev[1].trackId \in RemovedIds
    /\ Len(tracks) >= 2
    /\ tracks[1].trackId \in TrackIds(trackPrev)
    /\ tracks[Len(tracks)].trackId \in CreatedIds


(***************************************************************************)
(* C32: in every reachable state of PresenceStateMachine: noPresence       *)
(* implies visitStartedAtMs is null and both visit flags are false;        *)
(* present implies visitStartedAtMs is not null; hasGreetedThisVisit       *)
(* implies lastGreetedAtMs is not null and, with non-decreasing            *)
(* timestamps, lastGreetedAtMs >= visitStartedAtMs.                        *)
(***************************************************************************)
C32_StateFieldsConsistent ==
    /\ state.state \in {"noPresence", "present"}
    /\ state.state = "noPresence" =>
          /\ state.visitStartedAtMs = Null
          /\ ~state.hasGreetedThisVisit
          /\ ~state.hasEmittedCooldownSuppressionThisVisit
    /\ state.state = "present" => state.visitStartedAtMs # Null
    /\ state.hasGreetedThisVisit =>
          /\ state.lastGreetedAtMs # Null
          /\ monotonic => state.lastGreetedAtMs >= state.visitStartedAtMs

(***************************************************************************)
(* A second visit that was first suppressed and then greeted, with         *)
(* non-decreasing timestamps: both flags are set and the greet is later    *)
(* than the start of the visit.                                            *)
(***************************************************************************)
C32_Witness ==
    /\ IsUpdate
    /\ monotonic
    /\ state.hasGreetedThisVisit
    /\ state.hasEmittedCooldownSuppressionThisVisit
    /\ state.lastGreetedAtMs > state.visitStartedAtMs
    /\ exitCount = 1


(***************************************************************************)
(* C38: solveHungarianAssignment terminates for every non-empty square     *)
(* matrix of finite costs: the augmenting loop of each row ends after at   *)
(* most n column selections and the guard error "delta became infinite"    *)
(* is never raised for such input.                                         *)
(***************************************************************************)
C38_NoGuardErrorOnFiniteCosts ==
    (Solved /\ IsSquare(givenMatrix) /\ AllFinite(givenMatrix)) =>
        /\ solved.error # "Hungarian assignment failed: delta became infinite"
        /\ solved.maxPasses \in 1..Len(givenMatrix)


(***************************************************************************)
(* Properties of the detection interval callback.                          *)
(***************************************************************************)
FrameDone == trackOp = "update" /\ op = "update" /\ trackResult.error = NoError
StableBefore ==
    {trackPrev[i].trackId : i \in {k \in DOMAIN trackPrev : IsStable(trackPrev[k], trackSettings)}}
StableNow == TrackIds(trackResult.stableTracks)
AllUnmatched(ids) == ids \cap MatchedIds(trackResult) = {}

(***************************************************************************)
(* C35 as stated: in the composed pipeline with stableFramesRequired >= 1, *)
(* a frame in which the only stable track is unmatched ends the visit at   *)
(* once: PresenceStateMachine.update of that frame emits exit.             *)
(***************************************************************************)
C35_Original ==
    (FrameDone /\ Required >= 1 /\ Cardinality(StableBefore) = 1
              /\ AllUnmatched(StableBefore))
        => Has(events, "exit")

(***************************************************************************)
(* C35 amended: a frame in which every stable track is unmatched, and in   *)
(* which no other track reaches stableFramesRequired, ends the visit at    *)
(* once, whether the unmatched tracks are evicted or kept (missedFrameCount*)
(* <= trackMaxMissedFrames); and a track counts as stable only after       *)
(* stableFramesRequired matched frames in a row since it was created or    *)
(* last missed, so an enter needs that many.                               *)
(***************************************************************************)
C35_UnmatchedStableTracksEndVisit ==
    (FrameDone /\ Required >= 1) =>
        /\ (StableBefore # {} /\ AllUnmatched(StableBefore)
                              /\ StableNow \subseteq StableBefore)
             => /\ params.stableCount = 0
                /\ prev.state = "present"
                /\ events = <<ExitEvent(params.detectedAtMs)>>
                /\ state.state = "noPresence"
        /\ \A id \in StableNow :
              /\ id \in MatchedIds(trackResult) \cup Range(trackResult.createdTrackIds)
              /\ frame - trackLog[id].lastMissFrame >= Required
              /\ frame - trackLog[id].createdAtFrame + 1 >= Required
        /\ Has(events, "enter") => StableNow # {}

(***************************************************************************)
(* The stable track of a visit is missed for one frame and kept            *)
(* (trackMaxMissedFrames = 1, stableFramesRequired = 2): exit is emitted   *)
(* in that frame, and the track, matched again in the next frame, is not   *)
(* yet stable.                                                             *)
(***************************************************************************)
C35_Witness ==
    /\ FrameDone
    /\ Required = 2
    /\ trackSettings.trackMaxMissedFrames = 1
    /\ exitCount = 1
    /\ state.state = "noPresence"
    /\ Len(tracks) = 1
    /\ tracks[1].consecutiveMatchCount = 1
    /\ trackLog[tracks[1].trackId].lastMissFrame = frame - 1
    /\ trackLog[tracks[1].trackId].createdAtFrame = 1


(***************************************************************************)
(* C37: the callback sends a presence chat message only for a greet event  *)
(* emitted while the assistant is not streaming (enter, exit and           *)
(* greet-suppressed never produce a message); hence at most one presence   *)
(* message is sent per visit, and a greet emitted while the assistant is   *)
(* streaming is dropped and not sent later in that visit.                  *)
(***************************************************************************)
C37_OnlyGreetWhileNotStreamingIsSent ==
    /\ sentMessages # <<>> =>
          /\ FrameDone
          /\ ~streamingSeen
          /\ Len(sentMessages) = 1
          /\ \E i \in DOMAIN events :
                /\ events[i].type = "greet"
                /\ sentMessages[1] =
                      ReplaceAll(eventTextTemplate, "{count}", String(events[i].stableCount))
    /\ (FrameDone /\ (streamingSeen \/ ~Has(events, "greet"))) => sentMessages = <<>>
    /\ sentThisVisit <= 1
    /\ droppedThisVisit => sentThisVisit = 0

(***************************************************************************)
(* A visit whose greet was emitted while the assistant was streaming, and  *)
(* a later callback of the same visit that runs while the assistant is not *)
(* streaming, with a template that gives a text: nothing is sent.          *)
(***************************************************************************)
C37_Witness ==
    /\ FrameDone
    /\ eventTextTemplate # <<>>
    /\ droppedThisVisit
    /\ state.state = "present"
    /\ state.hasGreetedThisVisit
    /\ ~streamingSeen
    /\ events = <<>>
    /\ sentMessages = <<>>

====
